---------------------------- MODULE Spec2Model ----------------------------
(***************************************************************************)
(* cpp2ls: the document session (Cpp2Document), the project index          *)
(* (ProjectIndex) and the server's document handlers, modelled from        *)
(* src/src/document.cpp, src/src/index.cpp and the server sources.         *)
(*                                                                         *)
(* The cppfront front end (source, tokens, parser, sema) is an external    *)
(* library: what it produces for a buffer is an input of the model, drawn  *)
(* from the catalogue below (a few editor buffers, each with the token     *)
(* stream, declaration table, symbol table and errors the front end gives).*)
(***************************************************************************)
EXTENDS Integers, Sequences, FiniteSets, TLC

VARIABLES
  m_documents,     \* Server::m_documents: uri -> Cpp2Document (or NoDoc)
  m_file_indices,  \* ProjectIndex::m_file_indices: uri -> FileIndex
  m_symbol_map,    \* ProjectIndex::m_symbol_map: name -> pointer to a symbol
  m_dirty,         \* ProjectIndex::m_dirty
  m_workspace_root, \* ProjectIndex::m_workspace_root ("" until initialize)
  disk,            \* the workspace's cpp2 files: uri -> content, mtime, permissions
  cache_file,      \* <root>/.cache/cpp2ls/index.json
  now,             \* std::filesystem::file_time_type::clock::now()
  last,            \* history: the handler that ran last, its inputs, the session before it
  m_dependencies,  \* forward: file -> the files it includes directly
  m_reverse_dependencies, \* reverse: file -> the files that include it directly
  flagged,         \* the file updated last and the files flagged for re-diagnosis
  scan,            \* get_signature_help's token loop: the tokens met, the loop's locals
  walk             \* find_cpp2_files' directory walk: dir, the entries to come, files

graph_vars == <<m_dependencies, m_reverse_dependencies, flagged>>
vars == <<m_documents, m_file_indices, m_symbol_map, m_dirty, m_workspace_root,
          disk, cache_file, now, last,
          m_dependencies, m_reverse_dependencies, flagged, scan, walk>>

(* Query positions (0-based, as the editor sends them) range over
   0..MaxLine x 0..MaxCol. *)
MaxLine == 8
MaxCol == 12
(* The clock and the modification times range over 0..MaxClock. *)
MaxClock == 1
(* The token loop of get_signature_help meets up to MaxScan tokens. *)
MaxScan == 7

(* The editor buffers the model feeds to the server: the characters of
   std::string content. *)
Texts ==
  [A |->
     <<"T", ":", "t", "y", "p", "e", "=", "{", "m", ":", "i", "n", "t", ";", "}", "\n", "f", ":", "(", "x", ":", "T", ")", "=", "{", "}", "\n", "h", ":", "(", ")", "=", "{", "\n", "o", ":", "T", "=", "(", ")", ";", "\n", "q", ":", "T", "=", "(", ")", ";", "\n", "a", "d", "d", "(", "o", ")", ";", "\n", "}", "\n", "g", ":", "(", "y", ":", "i", "n", "t", ")", "=", "{", "o", ":", "i", "n", "t", "=", "0", ";", "}", "\n">>,
   B1 |->
     <<"T", ":", "t", "y", "p", "e", "=", "{", "m", ":", "i", "n", "t", ";", "}", "\n", "f", ":", "(", "x", ":", "T", ")", "=", "{", "}", "\n", "h", ":", "(", ")", "=", "{", "\n", "o", ":", "T", "=", "(", ")", ";", "\n", "q", ":", "T", "=", "(", ")", ";", "\n", "q", ".", "\n", "a", "d", "d", "(", "o", ")", ";", "\n", "}", "\n", "g", ":", "(", "y", ":", "i", "n", "t", ")", "=", "{", "o", ":", "i", "n", "t", "=", "0", ";", "}", "\n">>,
   B2 |->
     <<"T", ":", "t", "y", "p", "e", "=", "{", "m", ":", "i", "n", "t", ";", "}", "\n", "f", ":", "(", "x", ":", "T", ")", "=", "{", "}", "\n", "h", ":", "(", ")", "=", "{", "\n", "o", ":", "T", "=", "(", ")", ";", "\n", "q", ":", "T", "=", "(", ")", ";", "\n", "q", ".", ".", "\n", "a", "d", "d", "(", "o", ")", ";", "\n", "}", "\n", "g", ":", "(", "y", ":", "i", "n", "t", ")", "=", "{", "o", ":", "i", "n", "t", "=", "0", ";", "}", "\n">>,
   B3 |->
     <<"T", ":", "t", "y", "p", "e", "=", "{", "m", ":", "i", "n", "t", ";", "}", "\n", "f", ":", "(", "x", ":", "T", ")", "=", "{", "}", "\n", "h", ":", "(", ")", "=", "{", "\n", "o", ":", "T", "=", "(", ")", ";", "\n", "q", ":", "T", "=", "(", ")", ";", "\n", "q", "-", ">", "\n", "a", "d", "d", "(", "o", ")", ";", "\n", "}", "\n", "g", ":", "(", "y", ":", "i", "n", "t", ")", "=", "{", "o", ":", "i", "n", "t", "=", "0", ";", "}", "\n">>,
   B4 |->
     <<"T", ":", "t", "y", "p", "e", "=", "{", "m", ":", "i", "n", "t", ";", "}", "\n", "f", ":", "(", "x", ":", "T", ")", "=", "{", "}", "\n", "h", ":", "(", ")", "=", "{", "\n", "o", ":", "T", "=", "(", ")", ";", "\n", "q", ":", "T", "=", "(", ")", ";", "\n", "o", ".", "\n", "a", "d", "d", "(", "o", ")", ";", "\n", "}", "\n", "g", ":", "(", "y", ":", "i", "n", "t", ")", "=", "{", "o", ":", "i", "n", "t", "=", "0", ";", "}", "\n">>,
   S |->
     <<"T", ":", "t", "y", "p", "e", "=", "{", "m", ":", "i", "n", "t", ";", "}", "\n", "f", ":", "(", "x", ":", "T", ")", "=", "{", "}", "\n", "h", ":", "(", ")", "=", "{", "\n", "o", ":", "T", "=", "(", ")", ";", "\n", "q", ":", "T", ";", "\n", "a", "d", "d", "(", "q", ")", ";", "\n", "}", "\n", "g", ":", "(", "y", ":", "i", "n", "t", ")", "=", "{", "o", ":", "i", "n", "t", "=", "0", ";", "}", "\n">>,
   Z |->
     <<"i", "n", "t", " ", "x", ";", "\n">>,
   Y |->
     <<";", "\n">>,
   U |->
     <<"a", "d", "d", ":", "(", "a", ":", "i", "n", "t", ")", "=", "{", "}", "\n", "o", ":", "(", ")", "=", "{", "}", "\n">>,
   M |->
     <<"T", ":", "t", "y", "p", "e", "=", "{", "m", ":", "i", "n", "t", ";", "f", ":", "i", "n", "t", ";", "}", "\n", "f", ":", "(", "x", ":", "T", ")", "=", "{", "}", "\n", "h", ":", "(", ")", "=", "{", "\n", "o", ":", "T", "=", "(", ")", ";", "\n", "q", ":", "T", "=", "(", ")", ";", "\n", "a", "d", "d", "(", "o", ")", ";", "\n", "}", "\n", "g", ":", "(", "y", ":", "i", "n", "t", ")", "=", "{", "o", ":", "i", "n", "t", "=", "0", ";", "}", "\n">>,
   E |->
     <<"k", ":", "(", "y", ":", "i", "n", "t", ")", "=", "y", ";", "\n", "h", ":", "(", ")", "=", "{", "\n", "o", ":", "i", "n", "t", "=", "0", ";", "\n", "k", "(", "k", "(", "o", ")", ")", ";", "\n", "}", "\n">>]
Content(t) ==
  CASE t = "A" -> Texts.A
    [] t = "B1" -> Texts.B1
    [] t = "B2" -> Texts.B2
    [] t = "B3" -> Texts.B3
    [] t = "B4" -> Texts.B4
    [] t = "S" -> Texts.S
    [] t = "Z" -> Texts.Z
    [] t = "Y" -> Texts.Y
    [] t = "U" -> Texts.U
    [] t = "M" -> Texts.M
    [] t = "E" -> Texts.E
    [] OTHER -> << >>

(* What the front end makes of each buffer. A parse p = <<text, variant>>:
   TokensOf is cpp2::tokens::get_map() after lex(), DeclsOf the
   declaration_node objects of the parse tree (parent: index of
   parent_declaration in this table, 0 for none), SymbolsOf is
   cpp2::sema::symbols after visit() (a start and an end entry per
   declaration, an identifier entry per use of an object), DeclarationOfMap is
   cpp2::sema::declaration_of, ErrorsOf the error_entry list left in
   m_errors. *)
Tokens ==
  [A_ok |->
     << [lineno |-> 1, colno |-> 1, len |-> 1, str |-> "T", lex |-> "Identifier"],
       [lineno |-> 1, colno |-> 2, len |-> 1, str |-> ":", lex |-> "Punct"],
       [lineno |-> 1, colno |-> 3, len |-> 4, str |-> "type", lex |-> "Keyword"],
       [lineno |-> 1, colno |-> 7, len |-> 1, str |-> "=", lex |-> "Punct"],
       [lineno |-> 1, colno |-> 8, len |-> 1, str |-> "{", lex |-> "Punct"],
       [lineno |-> 1, colno |-> 9, len |-> 1, str |-> "m", lex |-> "Identifier"],
       [lineno |-> 1, colno |-> 10, len |-> 1, str |-> ":", lex |-> "Punct"],
       [lineno |-> 1, colno |-> 11, len |-> 3, str |-> "int", lex |-> "Keyword"],
       [lineno |-> 1, colno |-> 14, len |-> 1, str |-> ";", lex |-> "Punct"],
       [lineno |-> 1, colno |-> 15, len |-> 1, str |-> "}", lex |-> "Punct"],
       [lineno |-> 2, colno |-> 1, len |-> 1, str |-> "f", lex |-> "Identifier"],
       [lineno |-> 2, colno |-> 2, len |-> 1, str |-> ":", lex |-> "Punct"],
       [lineno |-> 2, colno |-> 3, len |-> 1, str |-> "(", lex |-> "Punct"],
       [lineno |-> 2, colno |-> 4, len |-> 1, str |-> "x", lex |-> "Identifier"],
       [lineno |-> 2, colno |-> 5, len |-> 1, str |-> ":", lex |-> "Punct"],
       [lineno |-> 2, colno |-> 6, len |-> 1, str |-> "T", lex |-> "Identifier"],
       [lineno |-> 2, colno |-> 7, len |-> 1, str |-> ")", lex |-> "Punct"],
       [lineno |-> 2, colno |-> 8, len |-> 1, str |-> "=", lex |-> "Punct"],
       [lineno |-> 2, colno |-> 9, len |-> 1, str |-> "{", lex |-> "Punct"],
       [lineno |-> 2, colno |-> 10, len |-> 1, str |-> "}", lex |-> "Punct"],
       [lineno |-> 3, colno |-> 1, len |-> 1, str |-> "h", lex |-> "Identifier"],
       [lineno |-> 3, colno |-> 2, len |-> 1, str |-> ":", lex |-> "Punct"],
       [lineno |-> 3, colno |-> 3, len |-> 1, str |-> "(", lex |-> "Punct"],
       [lineno |-> 3, colno |-> 4, len |-> 1, str |-> ")", lex |-> "Punct"],
       [lineno |-> 3, colno |-> 5, len |-> 1, str |-> "=", lex |-> "Punct"],
       [lineno |-> 3, colno |-> 6, len |-> 1, str |-> "{", lex |-> "Punct"],
       [lineno |-> 4, colno |-> 1, len |-> 1, str |-> "o", lex |-> "Identifier"],
       [lineno |-> 4, colno |-> 2, len |-> 1, str |-> ":", lex |-> "Punct"],
       [lineno |-> 4, colno |-> 3, len |-> 1, str |-> "T", lex |-> "Identifier"],
       [lineno |-> 4, colno |-> 4, len |-> 1, str |-> "=", lex |-> "Punct"],
       [lineno |-> 4, colno |-> 5, len |-> 1, str |-> "(", lex |-> "Punct"],
       [lineno |-> 4, colno |-> 6, len |-> 1, str |-> ")", lex |-> "Punct"],
       [lineno |-> 4, colno |-> 7, len |-> 1, str |-> ";", lex |-> "Punct"],
       [lineno |-> 5, colno |-> 1, len |-> 1, str |-> "q", lex |-> "Identifier"],
       [lineno |-> 5, colno |-> 2, len |-> 1, str |-> ":", lex |-> "Punct"],
       [lineno |-> 5, colno |-> 3, len |-> 1, str |-> "T", lex |-> "Identifier"],
       [lineno |-> 5, colno |-> 4, len |-> 1, str |-> "=", lex |-> "Punct"],
       [lineno |-> 5, colno |-> 5, len |-> 1, str |-> "(", lex |-> "Punct"],
       [lineno |-> 5, colno |-> 6, len |-> 1, str |-> ")", lex |-> "Punct"],
       [lineno |-> 5, colno |-> 7, len |-> 1, str |-> ";", lex |-> "Punct"],
       [lineno |-> 6, colno |-> 1, len |-> 3, str |-> "add", lex |-> "Identifier"],
       [lineno |-> 6, colno |-> 4, len |-> 1, str |-> "(", lex |-> "Punct"],
       [lineno |-> 6, colno |-> 5, len |-> 1, str |-> "o", lex |-> "Identifier"],
       [lineno |-> 6, colno |-> 6, len |-> 1, str |-> ")", lex |-> "Punct"],
       [lineno |-> 6, colno |-> 7, len |-> 1, str |-> ";", lex |-> "Punct"],
       [lineno |-> 7, colno |-> 1, len |-> 1, str |-> "}", lex |-> "Punct"],
       [lineno |-> 8, colno |-> 1, len |-> 1, str |-> "g", lex |-> "Identifier"],
       [lineno |-> 8, colno |-> 2, len |-> 1, str |-> ":", lex |-> "Punct"],
       [lineno |-> 8, colno |-> 3, len |-> 1, str |-> "(", lex |-> "Punct"],
       [lineno |-> 8, colno |-> 4, len |-> 1, str |-> "y", lex |-> "Identifier"],
       [lineno |-> 8, colno |-> 5, len |-> 1, str |-> ":", lex |-> "Punct"],
       [lineno |-> 8, colno |-> 6, len |-> 3, str |-> "int", lex |-> "Keyword"],
       [lineno |-> 8, colno |-> 9, len |-> 1, str |-> ")", lex |-> "Punct"],
       [lineno |-> 8, colno |-> 10, len |-> 1, str |-> "=", lex |-> "Punct"],
       [lineno |-> 8, colno |-> 11, len |-> 1, str |-> "{", lex |-> "Punct"],
       [lineno |-> 8, colno |-> 12, len |-> 1, str |-> "o", lex |-> "Identifier"],
       [lineno |-> 8, colno |-> 13, len |-> 1, str |-> ":", lex |-> "Punct"],
       [lineno |-> 8, colno |-> 14, len |-> 3, str |-> "int", lex |-> "Keyword"],
       [lineno |-> 8, colno |-> 17, len |-> 1, str |-> "=", lex |-> "Punct"],
       [lineno |-> 8, colno |-> 18, len |-> 1, str |-> "0", lex |-> "Punct"],
       [lineno |-> 8, colno |-> 19, len |-> 1, str |-> ";", lex |-> "Punct"],
       [lineno |-> 8, colno |-> 20, len |-> 1, str |-> "}", lex |-> "Punct"] >>,
   B1_err |->
     << [lineno |-> 1, colno |-> 1, len |-> 1, str |-> "T", lex |-> "Identifier"],
       [lineno |-> 1, colno |-> 2, len |-> 1, str |-> ":", lex |-> "Punct"],
       [lineno |-> 1, colno |-> 3, len |-> 4, str |-> "type", lex |-> "Keyword"],
       [lineno |-> 1, colno |-> 7, len |-> 1, str |-> "=", lex |-> "Punct"],
       [lineno |-> 1, colno |-> 8, len |-> 1, str |-> "{", lex |-> "Punct"],
       [lineno |-> 1, colno |-> 9, len |-> 1, str |-> "m", lex |-> "Identifier"],
       [lineno |-> 1, colno |-> 10, len |-> 1, str |-> ":", lex |-> "Punct"],
       [lineno |-> 1, colno |-> 11, len |-> 3, str |-> "int", lex |-> "Keyword"],
       [lineno |-> 1, colno |-> 14, len |-> 1, str |-> ";", lex |-> "Punct"],
       [lineno |-> 1, colno |-> 15, len |-> 1, str |-> "}", lex |-> "Punct"],
       [lineno |-> 2, colno |-> 1, len |-> 1, str |-> "f", lex |-> "Identifier"],
       [lineno |-> 2, colno |-> 2, len |-> 1, str |-> ":", lex |-> "Punct"],
       [lineno |-> 2, colno |-> 3, len |-> 1, str |-> "(", lex |-> "Punct"],
       [lineno |-> 2, colno |-> 4, len |-> 1, str |-> "x", lex |-> "Identifier"],
       [lineno |-> 2, colno |-> 5, len |-> 1, str |-> ":", lex |-> "Punct"],
       [lineno |-> 2, colno |-> 6, len |-> 1, str |-> "T", lex |-> "Identifier"],
       [lineno |-> 2, colno |-> 7, len |-> 1, str |-> ")", lex |-> "Punct"],
       [lineno |-> 2, colno |-> 8, len |-> 1, str |-> "=", lex |-> "Punct"],
       [lineno |-> 2, colno |-> 9, len |-> 1, str |-> "{", lex |-> "Punct"],
       [lineno |-> 2, colno |-> 10, len |-> 1, str |-> "}", lex |-> "Punct"],
       [lineno |-> 3, colno |-> 1, len |-> 1, str |-> "h", lex |-> "Identifier"],
       [lineno |-> 3, colno |-> 2, len |-> 1, str |-> ":", lex |-> "Punct"],
       [lineno |-> 3, colno |-> 3, len |-> 1, str |-> "(", lex |-> "Punct"],
       [lineno |-> 3, colno |-> 4, len |-> 1, str |-> ")", lex |-> "Punct"],
       [lineno |-> 3, colno |-> 5, len |-> 1, str |-> "=", lex |-> "Punct"],
       [lineno |-> 3, colno |-> 6, len |-> 1, str |-> "{", lex |-> "Punct"],
       [lineno |-> 4, colno |-> 1, len |-> 1, str |-> "o", lex |-> "Identifier"],
       [lineno |-> 4, colno |-> 2, len |-> 1, str |-> ":", lex |-> "Punct"],
       [lineno |-> 4, colno |-> 3, len |-> 1, str |-> "T", lex |-> "Identifier"],
       [lineno |-> 4, colno |-> 4, len |-> 1, str |-> "=", lex |-> "Punct"],
       [lineno |-> 4, colno |-> 5, len |-> 1, str |-> "(", lex |-> "Punct"],
       [lineno |-> 4, colno |-> 6, len |-> 1, str |-> ")", lex |-> "Punct"],
       [lineno |-> 4, colno |-> 7, len |-> 1, str |-> ";", lex |-> "Punct"],
       [lineno |-> 5, colno |-> 1, len |-> 1, str |-> "q", lex |-> "Identifier"],
       [lineno |-> 5, colno |-> 2, len |-> 1, str |-> ":", lex |-> "Punct"],
       [lineno |-> 5, colno |-> 3, len |-> 1, str |-> "T", lex |-> "Identifier"],
       [lineno |-> 5, colno |-> 4, len |-> 1, str |-> "=", lex |-> "Punct"],
       [lineno |-> 5, colno |-> 5, len |-> 1, str |-> "(", lex |-> "Punct"],
       [lineno |-> 5, colno |-> 6, len |-> 1, str |-> ")", lex |-> "Punct"],
       [lineno |-> 5, colno |-> 7, len |-> 1, str |-> ";", lex |-> "Punct"],
       [lineno |-> 6, colno |-> 1, len |-> 1, str |-> "q", lex |-> "Identifier"],
       [lineno |-> 6, colno |-> 2, len |-> 1, str |-> ".", lex |-> "Punct"],
       [lineno |-> 7, colno |-> 1, len |-> 3, str |-> "add", lex |-> "Identifier"],
       [lineno |-> 7, colno |-> 4, len |-> 1, str |-> "(", lex |-> "Punct"],
       [lineno |-> 7, colno |-> 5, len |-> 1, str |-> "o", lex |-> "Identifier"],
       [lineno |-> 7, colno |-> 6, len |-> 1, str |-> ")", lex |-> "Punct"],
       [lineno |-> 7, colno |-> 7, len |-> 1, str |-> ";", lex |-> "Punct"],
       [lineno |-> 8, colno |-> 1, len |-> 1, str |-> "}", lex |-> "Punct"],
       [lineno |-> 9, colno |-> 1, len |-> 1, str |-> "g", lex |-> "Identifier"],
       [lineno |-> 9, colno |-> 2, len |-> 1, str |-> ":", lex |-> "Punct"],
       [lineno |-> 9, colno |-> 3, len |-> 1, str |-> "(", lex |-> "Punct"],
       [lineno |-> 9, colno |-> 4, len |-> 1, str |-> "y", lex |-> "Identifier"],
       [lineno |-> 9, colno |-> 5, len |-> 1, str |-> ":", lex |-> "Punct"],
       [lineno |-> 9, colno |-> 6, len |-> 3, str |-> "int", lex |-> "Keyword"],
       [lineno |-> 9, colno |-> 9, len |-> 1, str |-> ")", lex |-> "Punct"],
       [lineno |-> 9, colno |-> 10, len |-> 1, str |-> "=", lex |-> "Punct"],
       [lineno |-> 9, colno |-> 11, len |-> 1, str |-> "{", lex |-> "Punct"],
       [lineno |-> 9, colno |-> 12, len |-> 1, str |-> "o", lex |-> "Identifier"],
       [lineno |-> 9, colno |-> 13, len |-> 1, str |-> ":", lex |-> "Punct"],
       [lineno |-> 9, colno |-> 14, len |-> 3, str |-> "int", lex |-> "Keyword"],
       [lineno |-> 9, colno |-> 17, len |-> 1, str |-> "=", lex |-> "Punct"],
       [lineno |-> 9, colno |-> 18, len |-> 1, str |-> "0", lex |-> "Punct"],
       [lineno |-> 9, colno |-> 19, len |-> 1, str |-> ";", lex |-> "Punct"],
       [lineno |-> 9, colno |-> 20, len |-> 1, str |-> "}", lex |-> "Punct"] >>,
   B2_err |->
     << [lineno |-> 1, colno |-> 1, len |-> 1, str |-> "T", lex |-> "Identifier"],
       [lineno |-> 1, colno |-> 2, len |-> 1, str |-> ":", lex |-> "Punct"],
       [lineno |-> 1, colno |-> 3, len |-> 4, str |-> "type", lex |-> "Keyword"],
       [lineno |-> 1, colno |-> 7, len |-> 1, str |-> "=", lex |-> "Punct"],
       [lineno |-> 1, colno |-> 8, len |-> 1, str |-> "{", lex |-> "Punct"],
       [lineno |-> 1, colno |-> 9, len |-> 1, str |-> "m", lex |-> "Identifier"],
       [lineno |-> 1, colno |-> 10, len |-> 1, str |-> ":", lex |-> "Punct"],
       [lineno |-> 1, colno |-> 11, len |-> 3, str |-> "int", lex |-> "Keyword"],
       [lineno |-> 1, colno |-> 14, len |-> 1, str |-> ";", lex |-> "Punct"],
       [lineno |-> 1, colno |-> 15, len |-> 1, str |-> "}", lex |-> "Punct"],
       [lineno |-> 2, colno |-> 1, len |-> 1, str |-> "f", lex |-> "Identifier"],
       [lineno |-> 2, colno |-> 2, len |-> 1, str |-> ":", lex |-> "Punct"],
       [lineno |-> 2, colno |-> 3, len |-> 1, str |-> "(", lex |-> "Punct"],
       [lineno |-> 2, colno |-> 4, len |-> 1, str |-> "x", lex |-> "Identifier"],
       [lineno |-> 2, colno |-> 5, len |-> 1, str |-> ":", lex |-> "Punct"],
       [lineno |-> 2, colno |-> 6, len |-> 1, str |-> "T", lex |-> "Identifier"],
       [lineno |-> 2, colno |-> 7, len |-> 1, str |-> ")", lex |-> "Punct"],
       [lineno |-> 2, colno |-> 8, len |-> 1, str |-> "=", lex |-> "Punct"],
       [lineno |-> 2, colno |-> 9, len |-> 1, str |-> "{", lex |-> "Punct"],
       [lineno |-> 2, colno |-> 10, len |-> 1, str |-> "}", lex |-> "Punct"],
       [lineno |-> 3, colno |-> 1, len |-> 1, str |-> "h", lex |-> "Identifier"],
       [lineno |-> 3, colno |-> 2, len |-> 1, str |-> ":", lex |-> "Punct"],
       [lineno |-> 3, colno |-> 3, len |-> 1, str |-> "(", lex |-> "Punct"],
       [lineno |-> 3, colno |-> 4, len |-> 1, str |-> ")", lex |-> "Punct"],
       [lineno |-> 3, colno |-> 5, len |-> 1, str |-> "=", lex |-> "Punct"],
       [lineno |-> 3, colno |-> 6, len |-> 1, str |-> "{", lex |-> "Punct"],
       [lineno |-> 4, colno |-> 1, len |-> 1, str |-> "o", lex |-> "Identifier"],
       [lineno |-> 4, colno |-> 2, len |-> 1, str |-> ":", lex |-> "Punct"],
       [lineno |-> 4, colno |-> 3, len |-> 1, str |-> "T", lex |-> "Identifier"],
       [lineno |-> 4, colno |-> 4, len |-> 1, str |-> "=", lex |-> "Punct"],
       [lineno |-> 4, colno |-> 5, len |-> 1, str |-> "(", lex |-> "Punct"],
       [lineno |-> 4, colno |-> 6, len |-> 1, str |-> ")", lex |-> "Punct"],
       [lineno |-> 4, colno |-> 7, len |-> 1, str |-> ";", lex |-> "Punct"],
       [lineno |-> 5, colno |-> 1, len |-> 1, str |-> "q", lex |-> "Identifier"],
       [lineno |-> 5, colno |-> 2, len |-> 1, str |-> ":", lex |-> "Punct"],
       [lineno |-> 5, colno |-> 3, len |-> 1, str |-> "T", lex |-> "Identifier"],
       [lineno |-> 5, colno |-> 4, len |-> 1, str |-> "=", lex |-> "Punct"],
       [lineno |-> 5, colno |-> 5, len |-> 1, str |-> "(", lex |-> "Punct"],
       [lineno |-> 5, colno |-> 6, len |-> 1, str |-> ")", lex |-> "Punct"],
       [lineno |-> 5, colno |-> 7, len |-> 1, str |-> ";", lex |-> "Punct"],
       [lineno |-> 6, colno |-> 1, len |-> 1, str |-> "q", lex |-> "Identifier"],
       [lineno |-> 6, colno |-> 2, len |-> 2, str |-> "..", lex |-> "Punct"],
       [lineno |-> 7, colno |-> 1, len |-> 3, str |-> "add", lex |-> "Identifier"],
       [lineno |-> 7, colno |-> 4, len |-> 1, str |-> "(", lex |-> "Punct"],
       [lineno |-> 7, colno |-> 5, len |-> 1, str |-> "o", lex |-> "Identifier"],
       [lineno |-> 7, colno |-> 6, len |-> 1, str |-> ")", lex |-> "Punct"],
       [lineno |-> 7, colno |-> 7, len |-> 1, str |-> ";", lex |-> "Punct"],
       [lineno |-> 8, colno |-> 1, len |-> 1, str |-> "}", lex |-> "Punct"],
       [lineno |-> 9, colno |-> 1, len |-> 1, str |-> "g", lex |-> "Identifier"],
       [lineno |-> 9, colno |-> 2, len |-> 1, str |-> ":", lex |-> "Punct"],
       [lineno |-> 9, colno |-> 3, len |-> 1, str |-> "(", lex |-> "Punct"],
       [lineno |-> 9, colno |-> 4, len |-> 1, str |-> "y", lex |-> "Identifier"],
       [lineno |-> 9, colno |-> 5, len |-> 1, str |-> ":", lex |-> "Punct"],
       [lineno |-> 9, colno |-> 6, len |-> 3, str |-> "int", lex |-> "Keyword"],
       [lineno |-> 9, colno |-> 9, len |-> 1, str |-> ")", lex |-> "Punct"],
       [lineno |-> 9, colno |-> 10, len |-> 1, str |-> "=", lex |-> "Punct"],
       [lineno |-> 9, colno |-> 11, len |-> 1, str |-> "{", lex |-> "Punct"],
       [lineno |-> 9, colno |-> 12, len |-> 1, str |-> "o", lex |-> "Identifier"],
       [lineno |-> 9, colno |-> 13, len |-> 1, str |-> ":", lex |-> "Punct"],
       [lineno |-> 9, colno |-> 14, len |-> 3, str |-> "int", lex |-> "Keyword"],
       [lineno |-> 9, colno |-> 17, len |-> 1, str |-> "=", lex |-> "Punct"],
       [lineno |-> 9, colno |-> 18, len |-> 1, str |-> "0", lex |-> "Punct"],
       [lineno |-> 9, colno |-> 19, len |-> 1, str |-> ";", lex |-> "Punct"],
       [lineno |-> 9, colno |-> 20, len |-> 1, str |-> "}", lex |-> "Punct"] >>,
   B3_err |->
     << [lineno |-> 1, colno |-> 1, len |-> 1, str |-> "T", lex |-> "Identifier"],
       [lineno |-> 1, colno |-> 2, len |-> 1, str |-> ":", lex |-> "Punct"],
       [lineno |-> 1, colno |-> 3, len |-> 4, str |-> "type", lex |-> "Keyword"],
       [lineno |-> 1, colno |-> 7, len |-> 1, str |-> "=", lex |-> "Punct"],
       [lineno |-> 1, colno |-> 8, len |-> 1, str |-> "{", lex |-> "Punct"],
       [lineno |-> 1, colno |-> 9, len |-> 1, str |-> "m", lex |-> "Identifier"],
       [lineno |-> 1, colno |-> 10, len |-> 1, str |-> ":", lex |-> "Punct"],
       [lineno |-> 1, colno |-> 11, len |-> 3, str |-> "int", lex |-> "Keyword"],
       [lineno |-> 1, colno |-> 14, len |-> 1, str |-> ";", lex |-> "Punct"],
       [lineno |-> 1, colno |-> 15, len |-> 1, str |-> "}", lex |-> "Punct"],
       [lineno |-> 2, colno |-> 1, len |-> 1, str |-> "f", lex |-> "Identifier"],
       [lineno |-> 2, colno |-> 2, len |-> 1, str |-> ":", lex |-> "Punct"],
       [lineno |-> 2, colno |-> 3, len |-> 1, str |-> "(", lex |-> "Punct"],
       [lineno |-> 2, colno |-> 4, len |-> 1, str |-> "x", lex |-> "Identifier"],
       [lineno |-> 2, colno |-> 5, len |-> 1, str |-> ":", lex |-> "Punct"],
       [lineno |-> 2, colno |-> 6, len |-> 1, str |-> "T", lex |-> "Identifier"],
       [lineno |-> 2, colno |-> 7, len |-> 1, str |-> ")", lex |-> "Punct"],
       [lineno |-> 2, colno |-> 8, len |-> 1, str |-> "=", lex |-> "Punct"],
       [lineno |-> 2, colno |-> 9, len |-> 1, str |-> "{", lex |-> "Punct"],
       [lineno |-> 2, colno |-> 10, len |-> 1, str |-> "}", lex |-> "Punct"],
       [lineno |-> 3, colno |-> 1, len |-> 1, str |-> "h", lex |-> "Identifier"],
       [lineno |-> 3, colno |-> 2, len |-> 1, str |-> ":", lex |-> "Punct"],
       [lineno |-> 3, colno |-> 3, len |-> 1, str |-> "(", lex |-> "Punct"],
       [lineno |-> 3, colno |-> 4, len |-> 1, str |-> ")", lex |-> "Punct"],
       [lineno |-> 3, colno |-> 5, len |-> 1, str |-> "=", lex |-> "Punct"],
       [lineno |-> 3, colno |-> 6, len |-> 1, str |-> "{", lex |-> "Punct"],
       [lineno |-> 4, colno |-> 1, len |-> 1, str |-> "o", lex |-> "Identifier"],
       [lineno |-> 4, colno |-> 2, len |-> 1, str |-> ":", lex |-> "Punct"],
       [lineno |-> 4, colno |-> 3, len |-> 1, str |-> "T", lex |-> "Identifier"],
       [lineno |-> 4, colno |-> 4, len |-> 1, str |-> "=", lex |-> "Punct"],
       [lineno |-> 4, colno |-> 5, len |-> 1, str |-> "(", lex |-> "Punct"],
       [lineno |-> 4, colno |-> 6, len |-> 1, str |-> ")", lex |-> "Punct"],
       [lineno |-> 4, colno |-> 7, len |-> 1, str |-> ";", lex |-> "Punct"],
       [lineno |-> 5, colno |-> 1, len |-> 1, str |-> "q", lex |-> "Identifier"],
       [lineno |-> 5, colno |-> 2, len |-> 1, str |-> ":", lex |-> "Punct"],
       [lineno |-> 5, colno |-> 3, len |-> 1, str |-> "T", lex |-> "Identifier"],
       [lineno |-> 5, colno |-> 4, len |-> 1, str |-> "=", lex |-> "Punct"],
       [lineno |-> 5, colno |-> 5, len |-> 1, str |-> "(", lex |-> "Punct"],
       [lineno |-> 5, colno |-> 6, len |-> 1, str |-> ")", lex |-> "Punct"],
       [lineno |-> 5, colno |-> 7, len |-> 1, str |-> ";", lex |-> "Punct"],
       [lineno |-> 6, colno |-> 1, len |-> 1, str |-> "q", lex |-> "Identifier"],
       [lineno |-> 6, colno |-> 2, len |-> 2, str |-> "->", lex |-> "Punct"],
       [lineno |-> 7, colno |-> 1, len |-> 3, str |-> "add", lex |-> "Identifier"],
       [lineno |-> 7, colno |-> 4, len |-> 1, str |-> "(", lex |-> "Punct"],
       [lineno |-> 7, colno |-> 5, len |-> 1, str |-> "o", lex |-> "Identifier"],
       [lineno |-> 7, colno |-> 6, len |-> 1, str |-> ")", lex |-> "Punct"],
       [lineno |-> 7, colno |-> 7, len |-> 1, str |-> ";", lex |-> "Punct"],
       [lineno |-> 8, colno |-> 1, len |-> 1, str |-> "}", lex |-> "Punct"],
       [lineno |-> 9, colno |-> 1, len |-> 1, str |-> "g", lex |-> "Identifier"],
       [lineno |-> 9, colno |-> 2, len |-> 1, str |-> ":", lex |-> "Punct"],
       [lineno |-> 9, colno |-> 3, len |-> 1, str |-> "(", lex |-> "Punct"],
       [lineno |-> 9, colno |-> 4, len |-> 1, str |-> "y", lex |-> "Identifier"],
       [lineno |-> 9, colno |-> 5, len |-> 1, str |-> ":", lex |-> "Punct"],
       [lineno |-> 9, colno |-> 6, len |-> 3, str |-> "int", lex |-> "Keyword"],
       [lineno |-> 9, colno |-> 9, len |-> 1, str |-> ")", lex |-> "Punct"],
       [lineno |-> 9, colno |-> 10, len |-> 1, str |-> "=", lex |-> "Punct"],
       [lineno |-> 9, colno |-> 11, len |-> 1, str |-> "{", lex |-> "Punct"],
       [lineno |-> 9, colno |-> 12, len |-> 1, str |-> "o", lex |-> "Identifier"],
       [lineno |-> 9, colno |-> 13, len |-> 1, str |-> ":", lex |-> "Punct"],
       [lineno |-> 9, colno |-> 14, len |-> 3, str |-> "int", lex |-> "Keyword"],
       [lineno |-> 9, colno |-> 17, len |-> 1, str |-> "=", lex |-> "Punct"],
       [lineno |-> 9, colno |-> 18, len |-> 1, str |-> "0", lex |-> "Punct"],
       [lineno |-> 9, colno |-> 19, len |-> 1, str |-> ";", lex |-> "Punct"],
       [lineno |-> 9, colno |-> 20, len |-> 1, str |-> "}", lex |-> "Punct"] >>,
   B4_err |->
     << [lineno |-> 1, colno |-> 1, len |-> 1, str |-> "T", lex |-> "Identifier"],
       [lineno |-> 1, colno |-> 2, len |-> 1, str |-> ":", lex |-> "Punct"],
       [lineno |-> 1, colno |-> 3, len |-> 4, str |-> "type", lex |-> "Keyword"],
       [lineno |-> 1, colno |-> 7, len |-> 1, str |-> "=", lex |-> "Punct"],
       [lineno |-> 1, colno |-> 8, len |-> 1, str |-> "{", lex |-> "Punct"],
       [lineno |-> 1, colno |-> 9, len |-> 1, str |-> "m", lex |-> "Identifier"],
       [lineno |-> 1, colno |-> 10, len |-> 1, str |-> ":", lex |-> "Punct"],
       [lineno |-> 1, colno |-> 11, len |-> 3, str |-> "int", lex |-> "Keyword"],
       [lineno |-> 1, colno |-> 14, len |-> 1, str |-> ";", lex |-> "Punct"],
       [lineno |-> 1, colno |-> 15, len |-> 1, str |-> "}", lex |-> "Punct"],
       [lineno |-> 2, colno |-> 1, len |-> 1, str |-> "f", lex |-> "Identifier"],
       [lineno |-> 2, colno |-> 2, len |-> 1, str |-> ":", lex |-> "Punct"],
       [lineno |-> 2, colno |-> 3, len |-> 1, str |-> "(", lex |-> "Punct"],
       [lineno |-> 2, colno |-> 4, len |-> 1, str |-> "x", lex |-> "Identifier"],
       [lineno |-> 2, colno |-> 5, len |-> 1, str |-> ":", lex |-> "Punct"],
       [lineno |-> 2, colno |-> 6, len |-> 1, str |-> "T", lex |-> "Identifier"],
       [lineno |-> 2, colno |-> 7, len |-> 1, str |-> ")", lex |-> "Punct"],
       [lineno |-> 2, colno |-> 8, len |-> 1, str |-> "=", lex |-> "Punct"],
       [lineno |-> 2, colno |-> 9, len |-> 1, str |-> "{", lex |-> "Punct"],
       [lineno |-> 2, colno |-> 10, len |-> 1, str |-> "}", lex |-> "Punct"],
       [lineno |-> 3, colno |-> 1, len |-> 1, str |-> "h", lex |-> "Identifier"],
       [lineno |-> 3, colno |-> 2, len |-> 1, str |-> ":", lex |-> "Punct"],
       [lineno |-> 3, colno |-> 3, len |-> 1, str |-> "(", lex |-> "Punct"],
       [lineno |-> 3, colno |-> 4, len |-> 1, str |-> ")", lex |-> "Punct"],
       [lineno |-> 3, colno |-> 5, len |-> 1, str |-> "=", lex |-> "Punct"],
       [lineno |-> 3, colno |-> 6, len |-> 1, str |-> "{", lex |-> "Punct"],
       [lineno |-> 4, colno |-> 1, len |-> 1, str |-> "o", lex |-> "Identifier"],
       [lineno |-> 4, colno |-> 2, len |-> 1, str |-> ":", lex |-> "Punct"],
       [lineno |-> 4, colno |-> 3, len |-> 1, str |-> "T", lex |-> "Identifier"],
       [lineno |-> 4, colno |-> 4, len |-> 1, str |-> "=", lex |-> "Punct"],
       [lineno |-> 4, colno |-> 5, len |-> 1, str |-> "(", lex |-> "Punct"],
       [lineno |-> 4, colno |-> 6, len |-> 1, str |-> ")", lex |-> "Punct"],
       [lineno |-> 4, colno |-> 7, len |-> 1, str |-> ";", lex |-> "Punct"],
       [lineno |-> 5, colno |-> 1, len |-> 1, str |-> "q", lex |-> "Identifier"],
       [lineno |-> 5, colno |-> 2, len |-> 1, str |-> ":", lex |-> "Punct"],
       [lineno |-> 5, colno |-> 3, len |-> 1, str |-> "T", lex |-> "Identifier"],
       [lineno |-> 5, colno |-> 4, len |-> 1, str |-> "=", lex |-> "Punct"],
       [lineno |-> 5, colno |-> 5, len |-> 1, str |-> "(", lex |-> "Punct"],
       [lineno |-> 5, colno |-> 6, len |-> 1, str |-> ")", lex |-> "Punct"],
       [lineno |-> 5, colno |-> 7, len |-> 1, str |-> ";", lex |-> "Punct"],
       [lineno |-> 6, colno |-> 1, len |-> 1, str |-> "o", lex |-> "Identifier"],
       [lineno |-> 6, colno |-> 2, len |-> 1, str |-> ".", lex |-> "Punct"],
       [lineno |-> 7, colno |-> 1, len |-> 3, str |-> "add", lex |-> "Identifier"],
       [lineno |-> 7, colno |-> 4, len |-> 1, str |-> "(", lex |-> "Punct"],
       [lineno |-> 7, colno |-> 5, len |-> 1, str |-> "o", lex |-> "Identifier"],
       [lineno |-> 7, colno |-> 6, len |-> 1, str |-> ")", lex |-> "Punct"],
       [lineno |-> 7, colno |-> 7, len |-> 1, str |-> ";", lex |-> "Punct"],
       [lineno |-> 8, colno |-> 1, len |-> 1, str |-> "}", lex |-> "Punct"],
       [lineno |-> 9, colno |-> 1, len |-> 1, str |-> "g", lex |-> "Identifier"],
       [lineno |-> 9, colno |-> 2, len |-> 1, str |-> ":", lex |-> "Punct"],
       [lineno |-> 9, colno |-> 3, len |-> 1, str |-> "(", lex |-> "Punct"],
       [lineno |-> 9, colno |-> 4, len |-> 1, str |-> "y", lex |-> "Identifier"],
       [lineno |-> 9, colno |-> 5, len |-> 1, str |-> ":", lex |-> "Punct"],
       [lineno |-> 9, colno |-> 6, len |-> 3, str |-> "int", lex |-> "Keyword"],
       [lineno |-> 9, colno |-> 9, len |-> 1, str |-> ")", lex |-> "Punct"],
       [lineno |-> 9, colno |-> 10, len |-> 1, str |-> "=", lex |-> "Punct"],
       [lineno |-> 9, colno |-> 11, len |-> 1, str |-> "{", lex |-> "Punct"],
       [lineno |-> 9, colno |-> 12, len |-> 1, str |-> "o", lex |-> "Identifier"],
       [lineno |-> 9, colno |-> 13, len |-> 1, str |-> ":", lex |-> "Punct"],
       [lineno |-> 9, colno |-> 14, len |-> 3, str |-> "int", lex |-> "Keyword"],
       [lineno |-> 9, colno |-> 17, len |-> 1, str |-> "=", lex |-> "Punct"],
       [lineno |-> 9, colno |-> 18, len |-> 1, str |-> "0", lex |-> "Punct"],
       [lineno |-> 9, colno |-> 19, len |-> 1, str |-> ";", lex |-> "Punct"],
       [lineno |-> 9, colno |-> 20, len |-> 1, str |-> "}", lex |-> "Punct"] >>,
   B1_throw |->
     << [lineno |-> 1, colno |-> 1, len |-> 1, str |-> "T", lex |-> "Identifier"],
       [lineno |-> 1, colno |-> 2, len |-> 1, str |-> ":", lex |-> "Punct"],
       [lineno |-> 1, colno |-> 3, len |-> 4, str |-> "type", lex |-> "Keyword"],
       [lineno |-> 1, colno |-> 7, len |-> 1, str |-> "=", lex |-> "Punct"],
       [lineno |-> 1, colno |-> 8, len |-> 1, str |-> "{", lex |-> "Punct"],
       [lineno |-> 1, colno |-> 9, len |-> 1, str |-> "m", lex |-> "Identifier"],
       [lineno |-> 1, colno |-> 10, len |-> 1, str |-> ":", lex |-> "Punct"],
       [lineno |-> 1, colno |-> 11, len |-> 3, str |-> "int", lex |-> "Keyword"],
       [lineno |-> 1, colno |-> 14, len |-> 1, str |-> ";", lex |-> "Punct"],
       [lineno |-> 1, colno |-> 15, len |-> 1, str |-> "}", lex |-> "Punct"],
       [lineno |-> 2, colno |-> 1, len |-> 1, str |-> "f", lex |-> "Identifier"],
       [lineno |-> 2, colno |-> 2, len |-> 1, str |-> ":", lex |-> "Punct"],
       [lineno |-> 2, colno |-> 3, len |-> 1, str |-> "(", lex |-> "Punct"],
       [lineno |-> 2, colno |-> 4, len |-> 1, str |-> "x", lex |-> "Identifier"],
       [lineno |-> 2, colno |-> 5, len |-> 1, str |-> ":", lex |-> "Punct"],
       [lineno |-> 2, colno |-> 6, len |-> 1, str |-> "T", lex |-> "Identifier"],
       [lineno |-> 2, colno |-> 7, len |-> 1, str |-> ")", lex |-> "Punct"],
       [lineno |-> 2, colno |-> 8, len |-> 1, str |-> "=", lex |-> "Punct"],
       [lineno |-> 2, colno |-> 9, len |-> 1, str |-> "{", lex |-> "Punct"],
       [lineno |-> 2, colno |-> 10, len |-> 1, str |-> "}", lex |-> "Punct"],
       [lineno |-> 3, colno |-> 1, len |-> 1, str |-> "h", lex |-> "Identifier"],
       [lineno |-> 3, colno |-> 2, len |-> 1, str |-> ":", lex |-> "Punct"],
       [lineno |-> 3, colno |-> 3, len |-> 1, str |-> "(", lex |-> "Punct"],
       [lineno |-> 3, colno |-> 4, len |-> 1, str |-> ")", lex |-> "Punct"],
       [lineno |-> 3, colno |-> 5, len |-> 1, str |-> "=", lex |-> "Punct"],
       [lineno |-> 3, colno |-> 6, len |-> 1, str |-> "{", lex |-> "Punct"],
       [lineno |-> 4, colno |-> 1, len |-> 1, str |-> "o", lex |-> "Identifier"],
       [lineno |-> 4, colno |-> 2, len |-> 1, str |-> ":", lex |-> "Punct"],
       [lineno |-> 4, colno |-> 3, len |-> 1, str |-> "T", lex |-> "Identifier"],
       [lineno |-> 4, colno |-> 4, len |-> 1, str |-> "=", lex |-> "Punct"],
       [lineno |-> 4, colno |-> 5, len |-> 1, str |-> "(", lex |-> "Punct"],
       [lineno |-> 4, colno |-> 6, len |-> 1, str |-> ")", lex |-> "Punct"],
       [lineno |-> 4, colno |-> 7, len |-> 1, str |-> ";", lex |-> "Punct"],
       [lineno |-> 5, colno |-> 1, len |-> 1, str |-> "q", lex |-> "Identifier"],
       [lineno |-> 5, colno |-> 2, len |-> 1, str |-> ":", lex |-> "Punct"],
       [lineno |-> 5, colno |-> 3, len |-> 1, str |-> "T", lex |-> "Identifier"],
       [lineno |-> 5, colno |-> 4, len |-> 1, str |-> "=", lex |-> "Punct"],
       [lineno |-> 5, colno |-> 5, len |-> 1, str |-> "(", lex |-> "Punct"],
       [lineno |-> 5, colno |-> 6, len |-> 1, str |-> ")", lex |-> "Punct"],
       [lineno |-> 5, colno |-> 7, len |-> 1, str |-> ";", lex |-> "Punct"],
       [lineno |-> 6, colno |-> 1, len |-> 1, str |-> "q", lex |-> "Identifier"],
       [lineno |-> 6, colno |-> 2, len |-> 1, str |-> ".", lex |-> "Punct"],
       [lineno |-> 7, colno |-> 1, len |-> 3, str |-> "add", lex |-> "Identifier"],
       [lineno |-> 7, colno |-> 4, len |-> 1, str |-> "(", lex |-> "Punct"],
       [lineno |-> 7, colno |-> 5, len |-> 1, str |-> "o", lex |-> "Identifier"],
       [lineno |-> 7, colno |-> 6, len |-> 1, str |-> ")", lex |-> "Punct"],
       [lineno |-> 7, colno |-> 7, len |-> 1, str |-> ";", lex |-> "Punct"],
       [lineno |-> 8, colno |-> 1, len |-> 1, str |-> "}", lex |-> "Punct"],
       [lineno |-> 9, colno |-> 1, len |-> 1, str |-> "g", lex |-> "Identifier"],
       [lineno |-> 9, colno |-> 2, len |-> 1, str |-> ":", lex |-> "Punct"],
       [lineno |-> 9, colno |-> 3, len |-> 1, str |-> "(", lex |-> "Punct"],
       [lineno |-> 9, colno |-> 4, len |-> 1, str |-> "y", lex |-> "Identifier"],
       [lineno |-> 9, colno |-> 5, len |-> 1, str |-> ":", lex |-> "Punct"],
       [lineno |-> 9, colno |-> 6, len |-> 3, str |-> "int", lex |-> "Keyword"],
       [lineno |-> 9, colno |-> 9, len |-> 1, str |-> ")", lex |-> "Punct"],
       [lineno |-> 9, colno |-> 10, len |-> 1, str |-> "=", lex |-> "Punct"],
       [lineno |-> 9, colno |-> 11, len |-> 1, str |-> "{", lex |-> "Punct"],
       [lineno |-> 9, colno |-> 12, len |-> 1, str |-> "o", lex |-> "Identifier"],
       [lineno |-> 9, colno |-> 13, len |-> 1, str |-> ":", lex |-> "Punct"],
       [lineno |-> 9, colno |-> 14, len |-> 3, str |-> "int", lex |-> "Keyword"],
       [lineno |-> 9, colno |-> 17, len |-> 1, str |-> "=", lex |-> "Punct"],
       [lineno |-> 9, colno |-> 18, len |-> 1, str |-> "0", lex |-> "Punct"],
       [lineno |-> 9, colno |-> 19, len |-> 1, str |-> ";", lex |-> "Punct"],
       [lineno |-> 9, colno |-> 20, len |-> 1, str |-> "}", lex |-> "Punct"] >>,
   S_err |->
     << [lineno |-> 1, colno |-> 1, len |-> 1, str |-> "T", lex |-> "Identifier"],
       [lineno |-> 1, colno |-> 2, len |-> 1, str |-> ":", lex |-> "Punct"],
       [lineno |-> 1, colno |-> 3, len |-> 4, str |-> "type", lex |-> "Keyword"],
       [lineno |-> 1, colno |-> 7, len |-> 1, str |-> "=", lex |-> "Punct"],
       [lineno |-> 1, colno |-> 8, len |-> 1, str |-> "{", lex |-> "Punct"],
       [lineno |-> 1, colno |-> 9, len |-> 1, str |-> "m", lex |-> "Identifier"],
       [lineno |-> 1, colno |-> 10, len |-> 1, str |-> ":", lex |-> "Punct"],
       [lineno |-> 1, colno |-> 11, len |-> 3, str |-> "int", lex |-> "Keyword"],
       [lineno |-> 1, colno |-> 14, len |-> 1, str |-> ";", lex |-> "Punct"],
       [lineno |-> 1, colno |-> 15, len |-> 1, str |-> "}", lex |-> "Punct"],
       [lineno |-> 2, colno |-> 1, len |-> 1, str |-> "f", lex |-> "Identifier"],
       [lineno |-> 2, colno |-> 2, len |-> 1, str |-> ":", lex |-> "Punct"],
       [lineno |-> 2, colno |-> 3, len |-> 1, str |-> "(", lex |-> "Punct"],
       [lineno |-> 2, colno |-> 4, len |-> 1, str |-> "x", lex |-> "Identifier"],
       [lineno |-> 2, colno |-> 5, len |-> 1, str |-> ":", lex |-> "Punct"],
       [lineno |-> 2, colno |-> 6, len |-> 1, str |-> "T", lex |-> "Identifier"],
       [lineno |-> 2, colno |-> 7, len |-> 1, str |-> ")", lex |-> "Punct"],
       [lineno |-> 2, colno |-> 8, len |-> 1, str |-> "=", lex |-> "Punct"],
       [lineno |-> 2, colno |-> 9, len |-> 1, str |-> "{", lex |-> "Punct"],
       [lineno |-> 2, colno |-> 10, len |-> 1, str |-> "}", lex |-> "Punct"],
       [lineno |-> 3, colno |-> 1, len |-> 1, str |-> "h", lex |-> "Identifier"],
       [lineno |-> 3, colno |-> 2, len |-> 1, str |-> ":", lex |-> "Punct"],
       [lineno |-> 3, colno |-> 3, len |-> 1, str |-> "(", lex |-> "Punct"],
       [lineno |-> 3, colno |-> 4, len |-> 1, str |-> ")", lex |-> "Punct"],
       [lineno |-> 3, colno |-> 5, len |-> 1, str |-> "=", lex |-> "Punct"],
       [lineno |-> 3, colno |-> 6, len |-> 1, str |-> "{", lex |-> "Punct"],
       [lineno |-> 4, colno |-> 1, len |-> 1, str |-> "o", lex |-> "Identifier"],
       [lineno |-> 4, colno |-> 2, len |-> 1, str |-> ":", lex |-> "Punct"],
       [lineno |-> 4, colno |-> 3, len |-> 1, str |-> "T", lex |-> "Identifier"],
       [lineno |-> 4, colno |-> 4, len |-> 1, str |-> "=", lex |-> "Punct"],
       [lineno |-> 4, colno |-> 5, len |-> 1, str |-> "(", lex |-> "Punct"],
       [lineno |-> 4, colno |-> 6, len |-> 1, str |-> ")", lex |-> "Punct"],
       [lineno |-> 4, colno |-> 7, len |-> 1, str |-> ";", lex |-> "Punct"],
       [lineno |-> 5, colno |-> 1, len |-> 1, str |-> "q", lex |-> "Identifier"],
       [lineno |-> 5, colno |-> 2, len |-> 1, str |-> ":", lex |-> "Punct"],
       [lineno |-> 5, colno |-> 3, len |-> 1, str |-> "T", lex |-> "Identifier"],
       [lineno |-> 5, colno |-> 4, len |-> 1, str |-> ";", lex |-> "Punct"],
       [lineno |-> 6, colno |-> 1, len |-> 3, str |-> "add", lex |-> "Identifier"],
       [lineno |-> 6, colno |-> 4, len |-> 1, str |-> "(", lex |-> "Punct"],
       [lineno |-> 6, colno |-> 5, len |-> 1, str |-> "q", lex |-> "Identifier"],
       [lineno |-> 6, colno |-> 6, len |-> 1, str |-> ")", lex |-> "Punct"],
       [lineno |-> 6, colno |-> 7, len |-> 1, str |-> ";", lex |-> "Punct"],
       [lineno |-> 7, colno |-> 1, len |-> 1, str |-> "}", lex |-> "Punct"],
       [lineno |-> 8, colno |-> 1, len |-> 1, str |-> "g", lex |-> "Identifier"],
       [lineno |-> 8, colno |-> 2, len |-> 1, str |-> ":", lex |-> "Punct"],
       [lineno |-> 8, colno |-> 3, len |-> 1, str |-> "(", lex |-> "Punct"],
       [lineno |-> 8, colno |-> 4, len |-> 1, str |-> "y", lex |-> "Identifier"],
       [lineno |-> 8, colno |-> 5, len |-> 1, str |-> ":", lex |-> "Punct"],
       [lineno |-> 8, colno |-> 6, len |-> 3, str |-> "int", lex |-> "Keyword"],
       [lineno |-> 8, colno |-> 9, len |-> 1, str |-> ")", lex |-> "Punct"],
       [lineno |-> 8, colno |-> 10, len |-> 1, str |-> "=", lex |-> "Punct"],
       [lineno |-> 8, colno |-> 11, len |-> 1, str |-> "{", lex |-> "Punct"],
       [lineno |-> 8, colno |-> 12, len |-> 1, str |-> "o", lex |-> "Identifier"],
       [lineno |-> 8, colno |-> 13, len |-> 1, str |-> ":", lex |-> "Punct"],
       [lineno |-> 8, colno |-> 14, len |-> 3, str |-> "int", lex |-> "Keyword"],
       [lineno |-> 8, colno |-> 17, len |-> 1, str |-> "=", lex |-> "Punct"],
       [lineno |-> 8, colno |-> 18, len |-> 1, str |-> "0", lex |-> "Punct"],
       [lineno |-> 8, colno |-> 19, len |-> 1, str |-> ";", lex |-> "Punct"],
       [lineno |-> 8, colno |-> 20, len |-> 1, str |-> "}", lex |-> "Punct"] >>,
   Y_ok |->
     << [lineno |-> 1, colno |-> 1, len |-> 1, str |-> ";", lex |-> "Punct"] >>,
   U_ok |->
     << [lineno |-> 1, colno |-> 1, len |-> 3, str |-> "add", lex |-> "Identifier"],
       [lineno |-> 1, colno |-> 4, len |-> 1, str |-> ":", lex |-> "Punct"],
       [lineno |-> 1, colno |-> 5, len |-> 1, str |-> "(", lex |-> "Punct"],
       [lineno |-> 1, colno |-> 6, len |-> 1, str |-> "a", lex |-> "Identifier"],
       [lineno |-> 1, colno |-> 7, len |-> 1, str |-> ":", lex |-> "Punct"],
       [lineno |-> 1, colno |-> 8, len |-> 3, str |-> "int", lex |-> "Keyword"],
       [lineno |-> 1, colno |-> 11, len |-> 1, str |-> ")", lex |-> "Punct"],
       [lineno |-> 1, colno |-> 12, len |-> 1, str |-> "=", lex |-> "Punct"],
       [lineno |-> 1, colno |-> 13, len |-> 1, str |-> "{", lex |-> "Punct"],
       [lineno |-> 1, colno |-> 14, len |-> 1, str |-> "}", lex |-> "Punct"],
       [lineno |-> 2, colno |-> 1, len |-> 1, str |-> "o", lex |-> "Identifier"],
       [lineno |-> 2, colno |-> 2, len |-> 1, str |-> ":", lex |-> "Punct"],
       [lineno |-> 2, colno |-> 3, len |-> 1, str |-> "(", lex |-> "Punct"],
       [lineno |-> 2, colno |-> 4, len |-> 1, str |-> ")", lex |-> "Punct"],
       [lineno |-> 2, colno |-> 5, len |-> 1, str |-> "=", lex |-> "Punct"],
       [lineno |-> 2, colno |-> 6, len |-> 1, str |-> "{", lex |-> "Punct"],
       [lineno |-> 2, colno |-> 7, len |-> 1, str |-> "}", lex |-> "Punct"] >>,
   M_ok |->
     << [lineno |-> 1, colno |-> 1, len |-> 1, str |-> "T", lex |-> "Identifier"],
       [lineno |-> 1, colno |-> 2, len |-> 1, str |-> ":", lex |-> "Punct"],
       [lineno |-> 1, colno |-> 3, len |-> 4, str |-> "type", lex |-> "Keyword"],
       [lineno |-> 1, colno |-> 7, len |-> 1, str |-> "=", lex |-> "Punct"],
       [lineno |-> 1, colno |-> 8, len |-> 1, str |-> "{", lex |-> "Punct"],
       [lineno |-> 1, colno |-> 9, len |-> 1, str |-> "m", lex |-> "Identifier"],
       [lineno |-> 1, colno |-> 10, len |-> 1, str |-> ":", lex |-> "Punct"],
       [lineno |-> 1, colno |-> 11, len |-> 3, str |-> "int", lex |-> "Keyword"],
       [lineno |-> 1, colno |-> 14, len |-> 1, str |-> ";", lex |-> "Punct"],
       [lineno |-> 1, colno |-> 15, len |-> 1, str |-> "f", lex |-> "Identifier"],
       [lineno |-> 1, colno |-> 16, len |-> 1, str |-> ":", lex |-> "Punct"],
       [lineno |-> 1, colno |-> 17, len |-> 3, str |-> "int", lex |-> "Keyword"],
       [lineno |-> 1, colno |-> 20, len |-> 1, str |-> ";", lex |-> "Punct"],
       [lineno |-> 1, colno |-> 21, len |-> 1, str |-> "}", lex |-> "Punct"],
       [lineno |-> 2, colno |-> 1, len |-> 1, str |-> "f", lex |-> "Identifier"],
       [lineno |-> 2, colno |-> 2, len |-> 1, str |-> ":", lex |-> "Punct"],
       [lineno |-> 2, colno |-> 3, len |-> 1, str |-> "(", lex |-> "Punct"],
       [lineno |-> 2, colno |-> 4, len |-> 1, str |-> "x", lex |-> "Identifier"],
       [lineno |-> 2, colno |-> 5, len |-> 1, str |-> ":", lex |-> "Punct"],
       [lineno |-> 2, colno |-> 6, len |-> 1, str |-> "T", lex |-> "Identifier"],
       [lineno |-> 2, colno |-> 7, len |-> 1, str |-> ")", lex |-> "Punct"],
       [lineno |-> 2, colno |-> 8, len |-> 1, str |-> "=", lex |-> "Punct"],
       [lineno |-> 2, colno |-> 9, len |-> 1, str |-> "{", lex |-> "Punct"],
       [lineno |-> 2, colno |-> 10, len |-> 1, str |-> "}", lex |-> "Punct"],
       [lineno |-> 3, colno |-> 1, len |-> 1, str |-> "h", lex |-> "Identifier"],
       [lineno |-> 3, colno |-> 2, len |-> 1, str |-> ":", lex |-> "Punct"],
       [lineno |-> 3, colno |-> 3, len |-> 1, str |-> "(", lex |-> "Punct"],
       [lineno |-> 3, colno |-> 4, len |-> 1, str |-> ")", lex |-> "Punct"],
       [lineno |-> 3, colno |-> 5, len |-> 1, str |-> "=", lex |-> "Punct"],
       [lineno |-> 3, colno |-> 6, len |-> 1, str |-> "{", lex |-> "Punct"],
       [lineno |-> 4, colno |-> 1, len |-> 1, str |-> "o", lex |-> "Identifier"],
       [lineno |-> 4, colno |-> 2, len |-> 1, str |-> ":", lex |-> "Punct"],
       [lineno |-> 4, colno |-> 3, len |-> 1, str |-> "T", lex |-> "Identifier"],
       [lineno |-> 4, colno |-> 4, len |-> 1, str |-> "=", lex |-> "Punct"],
       [lineno |-> 4, colno |-> 5, len |-> 1, str |-> "(", lex |-> "Punct"],
       [lineno |-> 4, colno |-> 6, len |-> 1, str |-> ")", lex |-> "Punct"],
       [lineno |-> 4, colno |-> 7, len |-> 1, str |-> ";", lex |-> "Punct"],
       [lineno |-> 5, colno |-> 1, len |-> 1, str |-> "q", lex |-> "Identifier"],
       [lineno |-> 5, colno |-> 2, len |-> 1, str |-> ":", lex |-> "Punct"],
       [lineno |-> 5, colno |-> 3, len |-> 1, str |-> "T", lex |-> "Identifier"],
       [lineno |-> 5, colno |-> 4, len |-> 1, str |-> "=", lex |-> "Punct"],
       [lineno |-> 5, colno |-> 5, len |-> 1, str |-> "(", lex |-> "Punct"],
       [lineno |-> 5, colno |-> 6, len |-> 1, str |-> ")", lex |-> "Punct"],
       [lineno |-> 5, colno |-> 7, len |-> 1, str |-> ";", lex |-> "Punct"],
       [lineno |-> 6, colno |-> 1, len |-> 3, str |-> "add", lex |-> "Identifier"],
       [lineno |-> 6, colno |-> 4, len |-> 1, str |-> "(", lex |-> "Punct"],
       [lineno |-> 6, colno |-> 5, len |-> 1, str |-> "o", lex |-> "Identifier"],
       [lineno |-> 6, colno |-> 6, len |-> 1, str |-> ")", lex |-> "Punct"],
       [lineno |-> 6, colno |-> 7, len |-> 1, str |-> ";", lex |-> "Punct"],
       [lineno |-> 7, colno |-> 1, len |-> 1, str |-> "}", lex |-> "Punct"],
       [lineno |-> 8, colno |-> 1, len |-> 1, str |-> "g", lex |-> "Identifier"],
       [lineno |-> 8, colno |-> 2, len |-> 1, str |-> ":", lex |-> "Punct"],
       [lineno |-> 8, colno |-> 3, len |-> 1, str |-> "(", lex |-> "Punct"],
       [lineno |-> 8, colno |-> 4, len |-> 1, str |-> "y", lex |-> "Identifier"],
       [lineno |-> 8, colno |-> 5, len |-> 1, str |-> ":", lex |-> "Punct"],
       [lineno |-> 8, colno |-> 6, len |-> 3, str |-> "int", lex |-> "Keyword"],
       [lineno |-> 8, colno |-> 9, len |-> 1, str |-> ")", lex |-> "Punct"],
       [lineno |-> 8, colno |-> 10, len |-> 1, str |-> "=", lex |-> "Punct"],
       [lineno |-> 8, colno |-> 11, len |-> 1, str |-> "{", lex |-> "Punct"],
       [lineno |-> 8, colno |-> 12, len |-> 1, str |-> "o", lex |-> "Identifier"],
       [lineno |-> 8, colno |-> 13, len |-> 1, str |-> ":", lex |-> "Punct"],
       [lineno |-> 8, colno |-> 14, len |-> 3, str |-> "int", lex |-> "Keyword"],
       [lineno |-> 8, colno |-> 17, len |-> 1, str |-> "=", lex |-> "Punct"],
       [lineno |-> 8, colno |-> 18, len |-> 1, str |-> "0", lex |-> "Punct"],
       [lineno |-> 8, colno |-> 19, len |-> 1, str |-> ";", lex |-> "Punct"],
       [lineno |-> 8, colno |-> 20, len |-> 1, str |-> "}", lex |-> "Punct"] >>,
   E_ok |->
     << [lineno |-> 1, colno |-> 1, len |-> 1, str |-> "k", lex |-> "Identifier"],
       [lineno |-> 1, colno |-> 2, len |-> 1, str |-> ":", lex |-> "Punct"],
       [lineno |-> 1, colno |-> 3, len |-> 1, str |-> "(", lex |-> "Punct"],
       [lineno |-> 1, colno |-> 4, len |-> 1, str |-> "y", lex |-> "Identifier"],
       [lineno |-> 1, colno |-> 5, len |-> 1, str |-> ":", lex |-> "Punct"],
       [lineno |-> 1, colno |-> 6, len |-> 3, str |-> "int", lex |-> "Keyword"],
       [lineno |-> 1, colno |-> 9, len |-> 1, str |-> ")", lex |-> "Punct"],
       [lineno |-> 1, colno |-> 10, len |-> 1, str |-> "=", lex |-> "Punct"],
       [lineno |-> 1, colno |-> 11, len |-> 1, str |-> "y", lex |-> "Identifier"],
       [lineno |-> 1, colno |-> 12, len |-> 1, str |-> ";", lex |-> "Punct"],
       [lineno |-> 2, colno |-> 1, len |-> 1, str |-> "h", lex |-> "Identifier"],
       [lineno |-> 2, colno |-> 2, len |-> 1, str |-> ":", lex |-> "Punct"],
       [lineno |-> 2, colno |-> 3, len |-> 1, str |-> "(", lex |-> "Punct"],
       [lineno |-> 2, colno |-> 4, len |-> 1, str |-> ")", lex |-> "Punct"],
       [lineno |-> 2, colno |-> 5, len |-> 1, str |-> "=", lex |-> "Punct"],
       [lineno |-> 2, colno |-> 6, len |-> 1, str |-> "{", lex |-> "Punct"],
       [lineno |-> 3, colno |-> 1, len |-> 1, str |-> "o", lex |-> "Identifier"],
       [lineno |-> 3, colno |-> 2, len |-> 1, str |-> ":", lex |-> "Punct"],
       [lineno |-> 3, colno |-> 3, len |-> 3, str |-> "int", lex |-> "Keyword"],
       [lineno |-> 3, colno |-> 6, len |-> 1, str |-> "=", lex |-> "Punct"],
       [lineno |-> 3, colno |-> 7, len |-> 1, str |-> "0", lex |-> "Punct"],
       [lineno |-> 3, colno |-> 8, len |-> 1, str |-> ";", lex |-> "Punct"],
       [lineno |-> 4, colno |-> 1, len |-> 1, str |-> "k", lex |-> "Identifier"],
       [lineno |-> 4, colno |-> 2, len |-> 1, str |-> "(", lex |-> "Punct"],
       [lineno |-> 4, colno |-> 3, len |-> 1, str |-> "k", lex |-> "Identifier"],
       [lineno |-> 4, colno |-> 4, len |-> 1, str |-> "(", lex |-> "Punct"],
       [lineno |-> 4, colno |-> 5, len |-> 1, str |-> "o", lex |-> "Identifier"],
       [lineno |-> 4, colno |-> 6, len |-> 1, str |-> ")", lex |-> "Punct"],
       [lineno |-> 4, colno |-> 7, len |-> 1, str |-> ")", lex |-> "Punct"],
       [lineno |-> 4, colno |-> 8, len |-> 1, str |-> ";", lex |-> "Punct"],
       [lineno |-> 5, colno |-> 1, len |-> 1, str |-> "}", lex |-> "Punct"] >>]
Decls ==
  [A_ok |->
     << [name |-> "T", kind |-> "type", lineno |-> 1, colno |-> 1, parent |-> 0, objtype |-> "", param1 |-> "", endline |-> 0, sig |-> ""],
       [name |-> "m", kind |-> "object", lineno |-> 1, colno |-> 9, parent |-> 1, objtype |-> "int", param1 |-> "", endline |-> 0, sig |-> ""],
       [name |-> "f", kind |-> "function", lineno |-> 2, colno |-> 1, parent |-> 0, objtype |-> "", param1 |-> "T", endline |-> 2, sig |-> "f: (x: T)"],
       [name |-> "x", kind |-> "object", lineno |-> 2, colno |-> 4, parent |-> 3, objtype |-> "T", param1 |-> "", endline |-> 0, sig |-> ""],
       [name |-> "h", kind |-> "function", lineno |-> 3, colno |-> 1, parent |-> 0, objtype |-> "", param1 |-> "", endline |-> 7, sig |-> "h: ()"],
       [name |-> "o", kind |-> "object", lineno |-> 4, colno |-> 1, parent |-> 5, objtype |-> "T", param1 |-> "", endline |-> 0, sig |-> ""],
       [name |-> "q", kind |-> "object", lineno |-> 5, colno |-> 1, parent |-> 5, objtype |-> "T", param1 |-> "", endline |-> 0, sig |-> ""],
       [name |-> "g", kind |-> "function", lineno |-> 8, colno |-> 1, parent |-> 0, objtype |-> "", param1 |-> "int", endline |-> 8, sig |-> "g: (y: int)"],
       [name |-> "y", kind |-> "object", lineno |-> 8, colno |-> 4, parent |-> 8, objtype |-> "int", param1 |-> "", endline |-> 0, sig |-> ""],
       [name |-> "o", kind |-> "object", lineno |-> 8, colno |-> 12, parent |-> 8, objtype |-> "int", param1 |-> "", endline |-> 0, sig |-> ""] >>,
   B1_err |->
     << [name |-> "T", kind |-> "type", lineno |-> 1, colno |-> 1, parent |-> 0, objtype |-> "", param1 |-> "", endline |-> 0, sig |-> ""],
       [name |-> "m", kind |-> "object", lineno |-> 1, colno |-> 9, parent |-> 1, objtype |-> "int", param1 |-> "", endline |-> 0, sig |-> ""],
       [name |-> "f", kind |-> "function", lineno |-> 2, colno |-> 1, parent |-> 0, objtype |-> "", param1 |-> "T", endline |-> 2, sig |-> "f: (x: T)"],
       [name |-> "x", kind |-> "object", lineno |-> 2, colno |-> 4, parent |-> 3, objtype |-> "T", param1 |-> "", endline |-> 0, sig |-> ""] >>,
   B2_err |->
     << [name |-> "T", kind |-> "type", lineno |-> 1, colno |-> 1, parent |-> 0, objtype |-> "", param1 |-> "", endline |-> 0, sig |-> ""],
       [name |-> "m", kind |-> "object", lineno |-> 1, colno |-> 9, parent |-> 1, objtype |-> "int", param1 |-> "", endline |-> 0, sig |-> ""],
       [name |-> "f", kind |-> "function", lineno |-> 2, colno |-> 1, parent |-> 0, objtype |-> "", param1 |-> "T", endline |-> 2, sig |-> "f: (x: T)"],
       [name |-> "x", kind |-> "object", lineno |-> 2, colno |-> 4, parent |-> 3, objtype |-> "T", param1 |-> "", endline |-> 0, sig |-> ""] >>,
   B3_err |->
     << [name |-> "T", kind |-> "type", lineno |-> 1, colno |-> 1, parent |-> 0, objtype |-> "", param1 |-> "", endline |-> 0, sig |-> ""],
       [name |-> "m", kind |-> "object", lineno |-> 1, colno |-> 9, parent |-> 1, objtype |-> "int", param1 |-> "", endline |-> 0, sig |-> ""],
       [name |-> "f", kind |-> "function", lineno |-> 2, colno |-> 1, parent |-> 0, objtype |-> "", param1 |-> "T", endline |-> 2, sig |-> "f: (x: T)"],
       [name |-> "x", kind |-> "object", lineno |-> 2, colno |-> 4, parent |-> 3, objtype |-> "T", param1 |-> "", endline |-> 0, sig |-> ""] >>,
   B4_err |->
     << [name |-> "T", kind |-> "type", lineno |-> 1, colno |-> 1, parent |-> 0, objtype |-> "", param1 |-> "", endline |-> 0, sig |-> ""],
       [name |-> "m", kind |-> "object", lineno |-> 1, colno |-> 9, parent |-> 1, objtype |-> "int", param1 |-> "", endline |-> 0, sig |-> ""],
       [name |-> "f", kind |-> "function", lineno |-> 2, colno |-> 1, parent |-> 0, objtype |-> "", param1 |-> "T", endline |-> 2, sig |-> "f: (x: T)"],
       [name |-> "x", kind |-> "object", lineno |-> 2, colno |-> 4, parent |-> 3, objtype |-> "T", param1 |-> "", endline |-> 0, sig |-> ""] >>,
   S_err |->
     << [name |-> "T", kind |-> "type", lineno |-> 1, colno |-> 1, parent |-> 0, objtype |-> "", param1 |-> "", endline |-> 0, sig |-> ""],
       [name |-> "m", kind |-> "object", lineno |-> 1, colno |-> 9, parent |-> 1, objtype |-> "int", param1 |-> "", endline |-> 0, sig |-> ""],
       [name |-> "f", kind |-> "function", lineno |-> 2, colno |-> 1, parent |-> 0, objtype |-> "", param1 |-> "T", endline |-> 2, sig |-> "f: (x: T)"],
       [name |-> "x", kind |-> "object", lineno |-> 2, colno |-> 4, parent |-> 3, objtype |-> "T", param1 |-> "", endline |-> 0, sig |-> ""],
       [name |-> "h", kind |-> "function", lineno |-> 3, colno |-> 1, parent |-> 0, objtype |-> "", param1 |-> "", endline |-> 7, sig |-> "h: ()"],
       [name |-> "o", kind |-> "object", lineno |-> 4, colno |-> 1, parent |-> 5, objtype |-> "T", param1 |-> "", endline |-> 0, sig |-> ""],
       [name |-> "q", kind |-> "object", lineno |-> 5, colno |-> 1, parent |-> 5, objtype |-> "T", param1 |-> "", endline |-> 0, sig |-> ""],
       [name |-> "g", kind |-> "function", lineno |-> 8, colno |-> 1, parent |-> 0, objtype |-> "", param1 |-> "int", endline |-> 8, sig |-> "g: (y: int)"],
       [name |-> "y", kind |-> "object", lineno |-> 8, colno |-> 4, parent |-> 8, objtype |-> "int", param1 |-> "", endline |-> 0, sig |-> ""],
       [name |-> "o", kind |-> "object", lineno |-> 8, colno |-> 12, parent |-> 8, objtype |-> "int", param1 |-> "", endline |-> 0, sig |-> ""] >>,
   U_ok |->
     << [name |-> "add", kind |-> "function", lineno |-> 1, colno |-> 1, parent |-> 0, objtype |-> "", param1 |-> "int", endline |-> 1, sig |-> "add: (a: int)"],
       [name |-> "a", kind |-> "object", lineno |-> 1, colno |-> 6, parent |-> 1, objtype |-> "int", param1 |-> "", endline |-> 0, sig |-> ""],
       [name |-> "o", kind |-> "function", lineno |-> 2, colno |-> 1, parent |-> 0, objtype |-> "", param1 |-> "", endline |-> 2, sig |-> "o: ()"] >>,
   M_ok |->
     << [name |-> "T", kind |-> "type", lineno |-> 1, colno |-> 1, parent |-> 0, objtype |-> "", param1 |-> "", endline |-> 0, sig |-> ""],
       [name |-> "m", kind |-> "object", lineno |-> 1, colno |-> 9, parent |-> 1, objtype |-> "int", param1 |-> "", endline |-> 0, sig |-> ""],
       [name |-> "f", kind |-> "object", lineno |-> 1, colno |-> 15, parent |-> 1, objtype |-> "int", param1 |-> "", endline |-> 0, sig |-> ""],
       [name |-> "f", kind |-> "function", lineno |-> 2, colno |-> 1, parent |-> 0, objtype |-> "", param1 |-> "T", endline |-> 2, sig |-> "f: (x: T)"],
       [name |-> "x", kind |-> "object", lineno |-> 2, colno |-> 4, parent |-> 4, objtype |-> "T", param1 |-> "", endline |-> 0, sig |-> ""],
       [name |-> "h", kind |-> "function", lineno |-> 3, colno |-> 1, parent |-> 0, objtype |-> "", param1 |-> "", endline |-> 7, sig |-> "h: ()"],
       [name |-> "o", kind |-> "object", lineno |-> 4, colno |-> 1, parent |-> 6, objtype |-> "T", param1 |-> "", endline |-> 0, sig |-> ""],
       [name |-> "q", kind |-> "object", lineno |-> 5, colno |-> 1, parent |-> 6, objtype |-> "T", param1 |-> "", endline |-> 0, sig |-> ""],
       [name |-> "g", kind |-> "function", lineno |-> 8, colno |-> 1, parent |-> 0, objtype |-> "", param1 |-> "int", endline |-> 8, sig |-> "g: (y: int)"],
       [name |-> "y", kind |-> "object", lineno |-> 8, colno |-> 4, parent |-> 9, objtype |-> "int", param1 |-> "", endline |-> 0, sig |-> ""],
       [name |-> "o", kind |-> "object", lineno |-> 8, colno |-> 12, parent |-> 9, objtype |-> "int", param1 |-> "", endline |-> 0, sig |-> ""] >>,
   E_ok |->
     << [name |-> "k", kind |-> "function", lineno |-> 1, colno |-> 1, parent |-> 0, objtype |-> "", param1 |-> "int", endline |-> 0, sig |-> "k: (y: int)"],
       [name |-> "y", kind |-> "object", lineno |-> 1, colno |-> 4, parent |-> 1, objtype |-> "int", param1 |-> "", endline |-> 0, sig |-> ""],
       [name |-> "h", kind |-> "function", lineno |-> 2, colno |-> 1, parent |-> 0, objtype |-> "", param1 |-> "", endline |-> 5, sig |-> "h: ()"],
       [name |-> "o", kind |-> "object", lineno |-> 3, colno |-> 1, parent |-> 3, objtype |-> "int", param1 |-> "", endline |-> 0, sig |-> ""] >>]
Symbols ==
  [A_ok |->
     << [isdecl |-> TRUE, start |-> TRUE, depth |-> 0, decl |-> 1, parameter |-> FALSE, lineno |-> 1, colno |-> 1],
       [isdecl |-> TRUE, start |-> TRUE, depth |-> 1, decl |-> 2, parameter |-> FALSE, lineno |-> 1, colno |-> 9],
       [isdecl |-> TRUE, start |-> FALSE, depth |-> 1, decl |-> 2, parameter |-> FALSE, lineno |-> 1, colno |-> 9],
       [isdecl |-> TRUE, start |-> FALSE, depth |-> 0, decl |-> 1, parameter |-> FALSE, lineno |-> 1, colno |-> 1],
       [isdecl |-> TRUE, start |-> TRUE, depth |-> 0, decl |-> 3, parameter |-> FALSE, lineno |-> 2, colno |-> 1],
       [isdecl |-> TRUE, start |-> TRUE, depth |-> 1, decl |-> 4, parameter |-> TRUE, lineno |-> 2, colno |-> 4],
       [isdecl |-> TRUE, start |-> FALSE, depth |-> 1, decl |-> 4, parameter |-> TRUE, lineno |-> 2, colno |-> 4],
       [isdecl |-> TRUE, start |-> FALSE, depth |-> 0, decl |-> 3, parameter |-> FALSE, lineno |-> 2, colno |-> 1],
       [isdecl |-> TRUE, start |-> TRUE, depth |-> 0, decl |-> 5, parameter |-> FALSE, lineno |-> 3, colno |-> 1],
       [isdecl |-> TRUE, start |-> TRUE, depth |-> 1, decl |-> 6, parameter |-> FALSE, lineno |-> 4, colno |-> 1],
       [isdecl |-> TRUE, start |-> FALSE, depth |-> 1, decl |-> 6, parameter |-> FALSE, lineno |-> 4, colno |-> 1],
       [isdecl |-> TRUE, start |-> TRUE, depth |-> 1, decl |-> 7, parameter |-> FALSE, lineno |-> 5, colno |-> 1],
       [isdecl |-> TRUE, start |-> FALSE, depth |-> 1, decl |-> 7, parameter |-> FALSE, lineno |-> 5, colno |-> 1],
       [isdecl |-> FALSE, start |-> TRUE, depth |-> 1, decl |-> 0, parameter |-> FALSE, lineno |-> 6, colno |-> 5],
       [isdecl |-> TRUE, start |-> FALSE, depth |-> 0, decl |-> 5, parameter |-> FALSE, lineno |-> 3, colno |-> 1],
       [isdecl |-> TRUE, start |-> TRUE, depth |-> 0, decl |-> 8, parameter |-> FALSE, lineno |-> 8, colno |-> 1],
       [isdecl |-> TRUE, start |-> TRUE, depth |-> 1, decl |-> 9, parameter |-> TRUE, lineno |-> 8, colno |-> 4],
       [isdecl |-> TRUE, start |-> FALSE, depth |-> 1, decl |-> 9, parameter |-> TRUE, lineno |-> 8, colno |-> 4],
       [isdecl |-> TRUE, start |-> TRUE, depth |-> 1, decl |-> 10, parameter |-> FALSE, lineno |-> 8, colno |-> 12],
       [isdecl |-> TRUE, start |-> FALSE, depth |-> 1, decl |-> 10, parameter |-> FALSE, lineno |-> 8, colno |-> 12],
       [isdecl |-> TRUE, start |-> FALSE, depth |-> 0, decl |-> 8, parameter |-> FALSE, lineno |-> 8, colno |-> 1] >>,
   B1_err |->
     << [isdecl |-> TRUE, start |-> TRUE, depth |-> 0, decl |-> 1, parameter |-> FALSE, lineno |-> 1, colno |-> 1],
       [isdecl |-> TRUE, start |-> TRUE, depth |-> 1, decl |-> 2, parameter |-> FALSE, lineno |-> 1, colno |-> 9],
       [isdecl |-> TRUE, start |-> FALSE, depth |-> 1, decl |-> 2, parameter |-> FALSE, lineno |-> 1, colno |-> 9],
       [isdecl |-> TRUE, start |-> FALSE, depth |-> 0, decl |-> 1, parameter |-> FALSE, lineno |-> 1, colno |-> 1],
       [isdecl |-> TRUE, start |-> TRUE, depth |-> 0, decl |-> 3, parameter |-> FALSE, lineno |-> 2, colno |-> 1],
       [isdecl |-> TRUE, start |-> TRUE, depth |-> 1, decl |-> 4, parameter |-> TRUE, lineno |-> 2, colno |-> 4],
       [isdecl |-> TRUE, start |-> FALSE, depth |-> 1, decl |-> 4, parameter |-> TRUE, lineno |-> 2, colno |-> 4],
       [isdecl |-> TRUE, start |-> FALSE, depth |-> 0, decl |-> 3, parameter |-> FALSE, lineno |-> 2, colno |-> 1] >>,
   B2_err |->
     << [isdecl |-> TRUE, start |-> TRUE, depth |-> 0, decl |-> 1, parameter |-> FALSE, lineno |-> 1, colno |-> 1],
       [isdecl |-> TRUE, start |-> TRUE, depth |-> 1, decl |-> 2, parameter |-> FALSE, lineno |-> 1, colno |-> 9],
       [isdecl |-> TRUE, start |-> FALSE, depth |-> 1, decl |-> 2, parameter |-> FALSE, lineno |-> 1, colno |-> 9],
       [isdecl |-> TRUE, start |-> FALSE, depth |-> 0, decl |-> 1, parameter |-> FALSE, lineno |-> 1, colno |-> 1],
       [isdecl |-> TRUE, start |-> TRUE, depth |-> 0, decl |-> 3, parameter |-> FALSE, lineno |-> 2, colno |-> 1],
       [isdecl |-> TRUE, start |-> TRUE, depth |-> 1, decl |-> 4, parameter |-> TRUE, lineno |-> 2, colno |-> 4],
       [isdecl |-> TRUE, start |-> FALSE, depth |-> 1, decl |-> 4, parameter |-> TRUE, lineno |-> 2, colno |-> 4],
       [isdecl |-> TRUE, start |-> FALSE, depth |-> 0, decl |-> 3, parameter |-> FALSE, lineno |-> 2, colno |-> 1] >>,
   B3_err |->
     << [isdecl |-> TRUE, start |-> TRUE, depth |-> 0, decl |-> 1, parameter |-> FALSE, lineno |-> 1, colno |-> 1],
       [isdecl |-> TRUE, start |-> TRUE, depth |-> 1, decl |-> 2, parameter |-> FALSE, lineno |-> 1, colno |-> 9],
       [isdecl |-> TRUE, start |-> FALSE, depth |-> 1, decl |-> 2, parameter |-> FALSE, lineno |-> 1, colno |-> 9],
       [isdecl |-> TRUE, start |-> FALSE, depth |-> 0, decl |-> 1, parameter |-> FALSE, lineno |-> 1, colno |-> 1],
       [isdecl |-> TRUE, start |-> TRUE, depth |-> 0, decl |-> 3, parameter |-> FALSE, lineno |-> 2, colno |-> 1],
       [isdecl |-> TRUE, start |-> TRUE, depth |-> 1, decl |-> 4, parameter |-> TRUE, lineno |-> 2, colno |-> 4],
       [isdecl |-> TRUE, start |-> FALSE, depth |-> 1, decl |-> 4, parameter |-> TRUE, lineno |-> 2, colno |-> 4],
       [isdecl |-> TRUE, start |-> FALSE, depth |-> 0, decl |-> 3, parameter |-> FALSE, lineno |-> 2, colno |-> 1] >>,
   B4_err |->
     << [isdecl |-> TRUE, start |-> TRUE, depth |-> 0, decl |-> 1, parameter |-> FALSE, lineno |-> 1, colno |-> 1],
       [isdecl |-> TRUE, start |-> TRUE, depth |-> 1, decl |-> 2, parameter |-> FALSE, lineno |-> 1, colno |-> 9],
       [isdecl |-> TRUE, start |-> FALSE, depth |-> 1, decl |-> 2, parameter |-> FALSE, lineno |-> 1, colno |-> 9],
       [isdecl |-> TRUE, start |-> FALSE, depth |-> 0, decl |-> 1, parameter |-> FALSE, lineno |-> 1, colno |-> 1],
       [isdecl |-> TRUE, start |-> TRUE, depth |-> 0, decl |-> 3, parameter |-> FALSE, lineno |-> 2, colno |-> 1],
       [isdecl |-> TRUE, start |-> TRUE, depth |-> 1, decl |-> 4, parameter |-> TRUE, lineno |-> 2, colno |-> 4],
       [isdecl |-> TRUE, start |-> FALSE, depth |-> 1, decl |-> 4, parameter |-> TRUE, lineno |-> 2, colno |-> 4],
       [isdecl |-> TRUE, start |-> FALSE, depth |-> 0, decl |-> 3, parameter |-> FALSE, lineno |-> 2, colno |-> 1] >>,
   S_err |->
     << [isdecl |-> TRUE, start |-> TRUE, depth |-> 0, decl |-> 1, parameter |-> FALSE, lineno |-> 1, colno |-> 1],
       [isdecl |-> TRUE, start |-> TRUE, depth |-> 1, decl |-> 2, parameter |-> FALSE, lineno |-> 1, colno |-> 9],
       [isdecl |-> TRUE, start |-> FALSE, depth |-> 1, decl |-> 2, parameter |-> FALSE, lineno |-> 1, colno |-> 9],
       [isdecl |-> TRUE, start |-> FALSE, depth |-> 0, decl |-> 1, parameter |-> FALSE, lineno |-> 1, colno |-> 1],
       [isdecl |-> TRUE, start |-> TRUE, depth |-> 0, decl |-> 3, parameter |-> FALSE, lineno |-> 2, colno |-> 1],
       [isdecl |-> TRUE, start |-> TRUE, depth |-> 1, decl |-> 4, parameter |-> TRUE, lineno |-> 2, colno |-> 4],
       [isdecl |-> TRUE, start |-> FALSE, depth |-> 1, decl |-> 4, parameter |-> TRUE, lineno |-> 2, colno |-> 4],
       [isdecl |-> TRUE, start |-> FALSE, depth |-> 0, decl |-> 3, parameter |-> FALSE, lineno |-> 2, colno |-> 1],
       [isdecl |-> TRUE, start |-> TRUE, depth |-> 0, decl |-> 5, parameter |-> FALSE, lineno |-> 3, colno |-> 1],
       [isdecl |-> TRUE, start |-> TRUE, depth |-> 1, decl |-> 6, parameter |-> FALSE, lineno |-> 4, colno |-> 1],
       [isdecl |-> TRUE, start |-> FALSE, depth |-> 1, decl |-> 6, parameter |-> FALSE, lineno |-> 4, colno |-> 1],
       [isdecl |-> TRUE, start |-> TRUE, depth |-> 1, decl |-> 7, parameter |-> FALSE, lineno |-> 5, colno |-> 1],
       [isdecl |-> TRUE, start |-> FALSE, depth |-> 1, decl |-> 7, parameter |-> FALSE, lineno |-> 5, colno |-> 1],
       [isdecl |-> FALSE, start |-> TRUE, depth |-> 1, decl |-> 0, parameter |-> FALSE, lineno |-> 6, colno |-> 5],
       [isdecl |-> TRUE, start |-> FALSE, depth |-> 0, decl |-> 5, parameter |-> FALSE, lineno |-> 3, colno |-> 1],
       [isdecl |-> TRUE, start |-> TRUE, depth |-> 0, decl |-> 8, parameter |-> FALSE, lineno |-> 8, colno |-> 1],
       [isdecl |-> TRUE, start |-> TRUE, depth |-> 1, decl |-> 9, parameter |-> TRUE, lineno |-> 8, colno |-> 4],
       [isdecl |-> TRUE, start |-> FALSE, depth |-> 1, decl |-> 9, parameter |-> TRUE, lineno |-> 8, colno |-> 4],
       [isdecl |-> TRUE, start |-> TRUE, depth |-> 1, decl |-> 10, parameter |-> FALSE, lineno |-> 8, colno |-> 12],
       [isdecl |-> TRUE, start |-> FALSE, depth |-> 1, decl |-> 10, parameter |-> FALSE, lineno |-> 8, colno |-> 12],
       [isdecl |-> TRUE, start |-> FALSE, depth |-> 0, decl |-> 8, parameter |-> FALSE, lineno |-> 8, colno |-> 1] >>,
   U_ok |->
     << [isdecl |-> TRUE, start |-> TRUE, depth |-> 0, decl |-> 1, parameter |-> FALSE, lineno |-> 1, colno |-> 1],
       [isdecl |-> TRUE, start |-> TRUE, depth |-> 1, decl |-> 2, parameter |-> TRUE, lineno |-> 1, colno |-> 6],
       [isdecl |-> TRUE, start |-> FALSE, depth |-> 1, decl |-> 2, parameter |-> TRUE, lineno |-> 1, colno |-> 6],
       [isdecl |-> TRUE, start |-> FALSE, depth |-> 0, decl |-> 1, parameter |-> FALSE, lineno |-> 1, colno |-> 1],
       [isdecl |-> TRUE, start |-> TRUE, depth |-> 0, decl |-> 3, parameter |-> FALSE, lineno |-> 2, colno |-> 1],
       [isdecl |-> TRUE, start |-> FALSE, depth |-> 0, decl |-> 3, parameter |-> FALSE, lineno |-> 2, colno |-> 1] >>,
   M_ok |->
     << [isdecl |-> TRUE, start |-> TRUE, depth |-> 0, decl |-> 1, parameter |-> FALSE, lineno |-> 1, colno |-> 1],
       [isdecl |-> TRUE, start |-> TRUE, depth |-> 1, decl |-> 2, parameter |-> FALSE, lineno |-> 1, colno |-> 9],
       [isdecl |-> TRUE, start |-> FALSE, depth |-> 1, decl |-> 2, parameter |-> FALSE, lineno |-> 1, colno |-> 9],
       [isdecl |-> TRUE, start |-> TRUE, depth |-> 1, decl |-> 3, parameter |-> FALSE, lineno |-> 1, colno |-> 15],
       [isdecl |-> TRUE, start |-> FALSE, depth |-> 1, decl |-> 3, parameter |-> FALSE, lineno |-> 1, colno |-> 15],
       [isdecl |-> TRUE, start |-> FALSE, depth |-> 0, decl |-> 1, parameter |-> FALSE, lineno |-> 1, colno |-> 1],
       [isdecl |-> TRUE, start |-> TRUE, depth |-> 0, decl |-> 4, parameter |-> FALSE, lineno |-> 2, colno |-> 1],
       [isdecl |-> TRUE, start |-> TRUE, depth |-> 1, decl |-> 5, parameter |-> TRUE, lineno |-> 2, colno |-> 4],
       [isdecl |-> TRUE, start |-> FALSE, depth |-> 1, decl |-> 5, parameter |-> TRUE, lineno |-> 2, colno |-> 4],
       [isdecl |-> TRUE, start |-> FALSE, depth |-> 0, decl |-> 4, parameter |-> FALSE, lineno |-> 2, colno |-> 1],
       [isdecl |-> TRUE, start |-> TRUE, depth |-> 0, decl |-> 6, parameter |-> FALSE, lineno |-> 3, colno |-> 1],
       [isdecl |-> TRUE, start |-> TRUE, depth |-> 1, decl |-> 7, parameter |-> FALSE, lineno |-> 4, colno |-> 1],
       [isdecl |-> TRUE, start |-> FALSE, depth |-> 1, decl |-> 7, parameter |-> FALSE, lineno |-> 4, colno |-> 1],
       [isdecl |-> TRUE, start |-> TRUE, depth |-> 1, decl |-> 8, parameter |-> FALSE, lineno |-> 5, colno |-> 1],
       [isdecl |-> TRUE, start |-> FALSE, depth |-> 1, decl |-> 8, parameter |-> FALSE, lineno |-> 5, colno |-> 1],
       [isdecl |-> FALSE, start |-> TRUE, depth |-> 1, decl |-> 0, parameter |-> FALSE, lineno |-> 6, colno |-> 5],
       [isdecl |-> TRUE, start |-> FALSE, depth |-> 0, decl |-> 6, parameter |-> FALSE, lineno |-> 3, colno |-> 1],
       [isdecl |-> TRUE, start |-> TRUE, depth |-> 0, decl |-> 9, parameter |-> FALSE, lineno |-> 8, colno |-> 1],
       [isdecl |-> TRUE, start |-> TRUE, depth |-> 1, decl |-> 10, parameter |-> TRUE, lineno |-> 8, colno |-> 4],
       [isdecl |-> TRUE, start |-> FALSE, depth |-> 1, decl |-> 10, parameter |-> TRUE, lineno |-> 8, colno |-> 4],
       [isdecl |-> TRUE, start |-> TRUE, depth |-> 1, decl |-> 11, parameter |-> FALSE, lineno |-> 8, colno |-> 12],
       [isdecl |-> TRUE, start |-> FALSE, depth |-> 1, decl |-> 11, parameter |-> FALSE, lineno |-> 8, colno |-> 12],
       [isdecl |-> TRUE, start |-> FALSE, depth |-> 0, decl |-> 9, parameter |-> FALSE, lineno |-> 8, colno |-> 1] >>,
   E_ok |->
     << [isdecl |-> TRUE, start |-> TRUE, depth |-> 0, decl |-> 1, parameter |-> FALSE, lineno |-> 1, colno |-> 1],
       [isdecl |-> TRUE, start |-> TRUE, depth |-> 1, decl |-> 2, parameter |-> TRUE, lineno |-> 1, colno |-> 4],
       [isdecl |-> TRUE, start |-> FALSE, depth |-> 1, decl |-> 2, parameter |-> TRUE, lineno |-> 1, colno |-> 4],
       [isdecl |-> FALSE, start |-> TRUE, depth |-> 1, decl |-> 0, parameter |-> FALSE, lineno |-> 1, colno |-> 11],
       [isdecl |-> TRUE, start |-> FALSE, depth |-> 0, decl |-> 1, parameter |-> FALSE, lineno |-> 1, colno |-> 1],
       [isdecl |-> TRUE, start |-> TRUE, depth |-> 0, decl |-> 3, parameter |-> FALSE, lineno |-> 2, colno |-> 1],
       [isdecl |-> TRUE, start |-> TRUE, depth |-> 1, decl |-> 4, parameter |-> FALSE, lineno |-> 3, colno |-> 1],
       [isdecl |-> TRUE, start |-> FALSE, depth |-> 1, decl |-> 4, parameter |-> FALSE, lineno |-> 3, colno |-> 1],
       [isdecl |-> FALSE, start |-> TRUE, depth |-> 1, decl |-> 0, parameter |-> FALSE, lineno |-> 4, colno |-> 5],
       [isdecl |-> TRUE, start |-> FALSE, depth |-> 0, decl |-> 3, parameter |-> FALSE, lineno |-> 2, colno |-> 1] >>]
DeclarationOf ==
  [A_ok |->
     { [lineno |-> 1, colno |-> 1, str |-> "T", decl |-> 1],
       [lineno |-> 1, colno |-> 9, str |-> "m", decl |-> 2],
       [lineno |-> 2, colno |-> 1, str |-> "f", decl |-> 3],
       [lineno |-> 2, colno |-> 4, str |-> "x", decl |-> 4],
       [lineno |-> 3, colno |-> 1, str |-> "h", decl |-> 5],
       [lineno |-> 4, colno |-> 1, str |-> "o", decl |-> 6],
       [lineno |-> 5, colno |-> 1, str |-> "q", decl |-> 7],
       [lineno |-> 8, colno |-> 1, str |-> "g", decl |-> 8],
       [lineno |-> 8, colno |-> 4, str |-> "y", decl |-> 9],
       [lineno |-> 8, colno |-> 12, str |-> "o", decl |-> 10],
       [lineno |-> 2, colno |-> 6, str |-> "T", decl |-> 1],
       [lineno |-> 4, colno |-> 3, str |-> "T", decl |-> 1],
       [lineno |-> 5, colno |-> 3, str |-> "T", decl |-> 1],
       [lineno |-> 6, colno |-> 5, str |-> "o", decl |-> 6] },
   B1_err |->
     { [lineno |-> 1, colno |-> 1, str |-> "T", decl |-> 1],
       [lineno |-> 1, colno |-> 9, str |-> "m", decl |-> 2],
       [lineno |-> 2, colno |-> 1, str |-> "f", decl |-> 3],
       [lineno |-> 2, colno |-> 4, str |-> "x", decl |-> 4],
       [lineno |-> 2, colno |-> 6, str |-> "T", decl |-> 1] },
   B2_err |->
     { [lineno |-> 1, colno |-> 1, str |-> "T", decl |-> 1],
       [lineno |-> 1, colno |-> 9, str |-> "m", decl |-> 2],
       [lineno |-> 2, colno |-> 1, str |-> "f", decl |-> 3],
       [lineno |-> 2, colno |-> 4, str |-> "x", decl |-> 4],
       [lineno |-> 2, colno |-> 6, str |-> "T", decl |-> 1] },
   B3_err |->
     { [lineno |-> 1, colno |-> 1, str |-> "T", decl |-> 1],
       [lineno |-> 1, colno |-> 9, str |-> "m", decl |-> 2],
       [lineno |-> 2, colno |-> 1, str |-> "f", decl |-> 3],
       [lineno |-> 2, colno |-> 4, str |-> "x", decl |-> 4],
       [lineno |-> 2, colno |-> 6, str |-> "T", decl |-> 1] },
   B4_err |->
     { [lineno |-> 1, colno |-> 1, str |-> "T", decl |-> 1],
       [lineno |-> 1, colno |-> 9, str |-> "m", decl |-> 2],
       [lineno |-> 2, colno |-> 1, str |-> "f", decl |-> 3],
       [lineno |-> 2, colno |-> 4, str |-> "x", decl |-> 4],
       [lineno |-> 2, colno |-> 6, str |-> "T", decl |-> 1] },
   S_err |->
     { [lineno |-> 1, colno |-> 1, str |-> "T", decl |-> 1],
       [lineno |-> 1, colno |-> 9, str |-> "m", decl |-> 2],
       [lineno |-> 2, colno |-> 1, str |-> "f", decl |-> 3],
       [lineno |-> 2, colno |-> 4, str |-> "x", decl |-> 4],
       [lineno |-> 3, colno |-> 1, str |-> "h", decl |-> 5],
       [lineno |-> 4, colno |-> 1, str |-> "o", decl |-> 6],
       [lineno |-> 5, colno |-> 1, str |-> "q", decl |-> 7],
       [lineno |-> 8, colno |-> 1, str |-> "g", decl |-> 8],
       [lineno |-> 8, colno |-> 4, str |-> "y", decl |-> 9],
       [lineno |-> 8, colno |-> 12, str |-> "o", decl |-> 10],
       [lineno |-> 2, colno |-> 6, str |-> "T", decl |-> 1],
       [lineno |-> 4, colno |-> 3, str |-> "T", decl |-> 1],
       [lineno |-> 5, colno |-> 3, str |-> "T", decl |-> 1],
       [lineno |-> 6, colno |-> 5, str |-> "q", decl |-> 7] },
   U_ok |->
     { [lineno |-> 1, colno |-> 1, str |-> "add", decl |-> 1],
       [lineno |-> 1, colno |-> 6, str |-> "a", decl |-> 2],
       [lineno |-> 2, colno |-> 1, str |-> "o", decl |-> 3] },
   M_ok |->
     { [lineno |-> 1, colno |-> 1, str |-> "T", decl |-> 1],
       [lineno |-> 1, colno |-> 9, str |-> "m", decl |-> 2],
       [lineno |-> 1, colno |-> 15, str |-> "f", decl |-> 3],
       [lineno |-> 2, colno |-> 1, str |-> "f", decl |-> 4],
       [lineno |-> 2, colno |-> 4, str |-> "x", decl |-> 5],
       [lineno |-> 3, colno |-> 1, str |-> "h", decl |-> 6],
       [lineno |-> 4, colno |-> 1, str |-> "o", decl |-> 7],
       [lineno |-> 5, colno |-> 1, str |-> "q", decl |-> 8],
       [lineno |-> 8, colno |-> 1, str |-> "g", decl |-> 9],
       [lineno |-> 8, colno |-> 4, str |-> "y", decl |-> 10],
       [lineno |-> 8, colno |-> 12, str |-> "o", decl |-> 11],
       [lineno |-> 2, colno |-> 6, str |-> "T", decl |-> 1],
       [lineno |-> 4, colno |-> 3, str |-> "T", decl |-> 1],
       [lineno |-> 5, colno |-> 3, str |-> "T", decl |-> 1],
       [lineno |-> 6, colno |-> 5, str |-> "o", decl |-> 7] },
   E_ok |->
     { [lineno |-> 1, colno |-> 1, str |-> "k", decl |-> 1],
       [lineno |-> 1, colno |-> 4, str |-> "y", decl |-> 2],
       [lineno |-> 2, colno |-> 1, str |-> "h", decl |-> 3],
       [lineno |-> 3, colno |-> 1, str |-> "o", decl |-> 4],
       [lineno |-> 1, colno |-> 11, str |-> "y", decl |-> 2],
       [lineno |-> 4, colno |-> 5, str |-> "o", decl |-> 4] }]
Errors ==
  [B1_err |->
     << [lineno |-> 6, colno |-> 3, msg |-> "syntax", internal |-> FALSE, fallback |-> FALSE] >>,
   B2_err |->
     << [lineno |-> 6, colno |-> 3, msg |-> "fallback", internal |-> FALSE, fallback |-> TRUE],
       [lineno |-> 3, colno |-> 1, msg |-> "fallback at end", internal |-> FALSE, fallback |-> TRUE] >>,
   B3_err |->
     << [lineno |-> 6, colno |-> 4, msg |-> "syntax", internal |-> FALSE, fallback |-> FALSE] >>,
   B4_err |->
     << [lineno |-> 6, colno |-> 3, msg |-> "syntax", internal |-> FALSE, fallback |-> FALSE] >>,
   S_err |->
     << [lineno |-> 6, colno |-> 5, msg |-> "sema", internal |-> FALSE, fallback |-> FALSE],
       [lineno |-> 6, colno |-> 1, msg |-> "fallback", internal |-> FALSE, fallback |-> TRUE] >>]
TokensOf(p) ==
  CASE p = <<"A", "ok">> -> Tokens.A_ok
    [] p = <<"B1", "err">> -> Tokens.B1_err
    [] p = <<"B2", "err">> -> Tokens.B2_err
    [] p = <<"B3", "err">> -> Tokens.B3_err
    [] p = <<"B4", "err">> -> Tokens.B4_err
    [] p = <<"B1", "throw">> -> Tokens.B1_throw
    [] p = <<"S", "err">> -> Tokens.S_err
    [] p = <<"Y", "ok">> -> Tokens.Y_ok
    [] p = <<"U", "ok">> -> Tokens.U_ok
    [] p = <<"M", "ok">> -> Tokens.M_ok
    [] p = <<"E", "ok">> -> Tokens.E_ok
    [] OTHER -> << >>
DeclsOf(p) ==
  CASE p = <<"A", "ok">> -> Decls.A_ok
    [] p = <<"B1", "err">> -> Decls.B1_err
    [] p = <<"B2", "err">> -> Decls.B2_err
    [] p = <<"B3", "err">> -> Decls.B3_err
    [] p = <<"B4", "err">> -> Decls.B4_err
    [] p = <<"S", "err">> -> Decls.S_err
    [] p = <<"U", "ok">> -> Decls.U_ok
    [] p = <<"M", "ok">> -> Decls.M_ok
    [] p = <<"E", "ok">> -> Decls.E_ok
    [] OTHER -> << >>
SymbolsOf(p) ==
  CASE p = <<"A", "ok">> -> Symbols.A_ok
    [] p = <<"B1", "err">> -> Symbols.B1_err
    [] p = <<"B2", "err">> -> Symbols.B2_err
    [] p = <<"B3", "err">> -> Symbols.B3_err
    [] p = <<"B4", "err">> -> Symbols.B4_err
    [] p = <<"S", "err">> -> Symbols.S_err
    [] p = <<"U", "ok">> -> Symbols.U_ok
    [] p = <<"M", "ok">> -> Symbols.M_ok
    [] p = <<"E", "ok">> -> Symbols.E_ok
    [] OTHER -> << >>
DeclarationOfMap(p) ==
  CASE p = <<"A", "ok">> -> DeclarationOf.A_ok
    [] p = <<"B1", "err">> -> DeclarationOf.B1_err
    [] p = <<"B2", "err">> -> DeclarationOf.B2_err
    [] p = <<"B3", "err">> -> DeclarationOf.B3_err
    [] p = <<"B4", "err">> -> DeclarationOf.B4_err
    [] p = <<"S", "err">> -> DeclarationOf.S_err
    [] p = <<"U", "ok">> -> DeclarationOf.U_ok
    [] p = <<"M", "ok">> -> DeclarationOf.M_ok
    [] p = <<"E", "ok">> -> DeclarationOf.E_ok
    [] OTHER -> {}
ErrorsOf(p) ==
  CASE p = <<"B1", "err">> -> Errors.B1_err
    [] p = <<"B2", "err">> -> Errors.B2_err
    [] p = <<"B3", "err">> -> Errors.B3_err
    [] p = <<"B4", "err">> -> Errors.B4_err
    [] p = <<"S", "err">> -> Errors.S_err
    [] OTHER -> << >>

(* token::to_string() as characters, to compare with text cut from the line. *)
Spelling(s) ==
  CASE s = "(" -> <<"(">>
    [] s = ")" -> <<")">>
    [] s = "->" -> <<"-", ">">>
    [] s = "." -> <<".">>
    [] s = ".." -> <<".", ".">>
    [] s = "0" -> <<"0">>
    [] s = ":" -> <<":">>
    [] s = ";" -> <<";">>
    [] s = "=" -> <<"=">>
    [] s = "T" -> <<"T">>
    [] s = "a" -> <<"a">>
    [] s = "add" -> <<"a", "d", "d">>
    [] s = "f" -> <<"f">>
    [] s = "g" -> <<"g">>
    [] s = "h" -> <<"h">>
    [] s = "int" -> <<"i", "n", "t">>
    [] s = "k" -> <<"k">>
    [] s = "m" -> <<"m">>
    [] s = "o" -> <<"o">>
    [] s = "q" -> <<"q">>
    [] s = "type" -> <<"t", "y", "p", "e">>
    [] s = "x" -> <<"x">>
    [] s = "y" -> <<"y">>
    [] s = "{" -> <<"{">>
    [] s = "}" -> <<"}">>
    [] OTHER -> << >>

(* The buffers an editor sends for each document, the front end's possible
   behaviours on each (Variants), and the environment of one update call. *)
URIs == {"main", "utils"}
URIOrder == <<"main", "utils">>
Buffers(uri) ==
  IF uri = "main" THEN {"A", "B1", "B2", "B3", "B4", "S", "Z", "Y", "E", "M"} ELSE {"U"}
Variants(t) ==
  CASE t = "B1" -> {"err", "throw"}
    [] t \in {"B2", "B3", "B4", "S"} -> {"err"}
    [] OTHER -> {"ok"}
Envs(uri, t) ==
  IF uri = "main" /\ t \in {"A", "B1"} THEN {"ok", "tmpfail", "loadfail"}
  ELSE {"ok"}
(* Where the front end throws: in lex(), in parse(), or in visit() and
   apply_local_rules(). *)
Stages(v) == IF v = "throw" THEN {"lex", "parse", "sema"} ELSE {"none"}

(* cpp2::source::has_cpp2() *)
has_cpp2(t) == t # "Z"
(* Whether the front end throws std::exception while parsing p. *)
Throws(p) == p[2] = "throw"

(* ----------------------------------------------------------------------- *)
(* Cpp2Document                                                            *)
(* ----------------------------------------------------------------------- *)

(* A unique_ptr to the objects one update call created: the parse they hold
   and the identity (address) of the allocation; NoInst is the null pointer. *)
NoInst == [p |-> <<"", "">>, addr |-> 0]
Addrs == {1, 2}

(* Cpp2Document::Cpp2Document(uri) *)
NewDoc(uri) ==
  [open |-> TRUE, m_uri |-> uri, m_content |-> "", m_errors |-> << >>,
   m_source |-> NoInst, m_tokens |-> NoInst, m_parser |-> NoInst,
   m_sema |-> NoInst, m_valid |-> FALSE,
   m_cached_source |-> NoInst, m_cached_tokens |-> NoInst,
   m_cached_parser |-> NoInst, m_cached_sema |-> NoInst]

(* No entry in m_documents. *)
NoDoc == [NewDoc("") EXCEPT !.open = FALSE]

(* std::make_unique: a fresh object, distinct from every object the session
   still holds (the current ones were reset, the cached ones are alive). *)
FreshAddr(d) ==
  CHOOSE a \in Addrs :
    /\ a \notin {d.m_cached_source.addr, d.m_cached_tokens.addr,
                 d.m_cached_parser.addr, d.m_cached_sema.addr}
    /\ \A b \in Addrs :
         b \notin {d.m_cached_source.addr, d.m_cached_tokens.addr,
                   d.m_cached_parser.addr, d.m_cached_sema.addr} => a <= b

TempFileError ==
  [lineno |-> 1, colno |-> 1, msg |-> "Failed to create temporary file for parsing",
   internal |-> FALSE, fallback |-> FALSE]
ParserException ==
  [lineno |-> 1, colno |-> 1, msg |-> "Parser exception: ",
   internal |-> FALSE, fallback |-> FALSE]

ResetParsingStateKeepsErrors(d, t) ==
  [d EXCEPT !.m_content = t, !.m_valid = FALSE,
            !.m_source = NoInst, !.m_tokens = NoInst,
            !.m_parser = NoInst, !.m_sema = NoInst]
ResetParsingStateKeepsCurrent(d, t) ==
  [d EXCEPT !.m_content = t, !.m_valid = FALSE, !.m_errors = << >>]
(* update, lines 54-62: the new content is stored, the flags and the current
   parse are reset. *)
ResetParsingState(d, t) ==
  [d EXCEPT !.m_content = t, !.m_valid = FALSE, !.m_errors = << >>,
            !.m_source = NoInst, !.m_tokens = NoInst,
            !.m_parser = NoInst, !.m_sema = NoInst]

CacheResultsIgnoringErrors(d) ==
  IF d.m_sema # NoInst /\ SymbolsOf(d.m_sema.p) # << >>
  THEN [d EXCEPT !.m_cached_source = d.m_source, !.m_cached_tokens = d.m_tokens,
                 !.m_cached_parser = d.m_parser, !.m_cached_sema = d.m_sema,
                 !.m_source = NoInst, !.m_tokens = NoInst,
                 !.m_parser = NoInst, !.m_sema = NoInst]
  ELSE d
(* update, lines 131-143: the results of a successful parse move to the cache. *)
CacheResults(d) ==
  IF d.m_valid /\ d.m_sema # NoInst /\ SymbolsOf(d.m_sema.p) # << >>
  THEN [d EXCEPT !.m_cached_source = d.m_source, !.m_cached_tokens = d.m_tokens,
                 !.m_cached_parser = d.m_parser, !.m_cached_sema = d.m_sema,
                 !.m_source = NoInst, !.m_tokens = NoInst,
                 !.m_parser = NoInst, !.m_sema = NoInst]
  ELSE d

CatchExceptionSilently(d) == [d EXCEPT !.m_valid = FALSE]
(* update, lines 121-129: the catch block. *)
CatchException(d) ==
  [d EXCEPT !.m_errors = Append(@, ParserException), !.m_valid = FALSE]

(* Cpp2Document::update(content). env: whether the temporary file can be
   created and loaded; v: the front end's behaviour on this content; stage:
   where it throws, if it does. *)
update(d, t, env, v, stage) ==
  LET d0 == ResetParsingState(d, t)
      new == [p |-> <<t, v>>, addr |-> FreshAddr(d0)]
  IN  IF env = "tmpfail"
      THEN [d0 EXCEPT !.m_errors = Append(@, TempFileError)]
      ELSE IF env = "loadfail"
      THEN [d0 EXCEPT !.m_source = new]
      ELSE IF ~has_cpp2(t)
      THEN [d0 EXCEPT !.m_source = new, !.m_valid = TRUE]
      ELSE IF Throws(new.p)
      THEN CatchException(
             [d0 EXCEPT !.m_source = new, !.m_tokens = new,
                        !.m_parser = IF stage = "lex" THEN NoInst ELSE new,
                        !.m_sema = IF stage = "sema" THEN new ELSE NoInst,
                        !.m_errors = @ \o ErrorsOf(new.p)])
      ELSE CacheResults([d0 EXCEPT !.m_source = new, !.m_tokens = new,
                                   !.m_parser = new, !.m_sema = new,
                                   !.m_errors = @ \o ErrorsOf(new.p),
                                   !.m_valid = (d0.m_errors \o ErrorsOf(new.p) = << >>)])

(* Cpp2Document::is_valid *)
is_valid(d) == d.m_valid

(* Cpp2Document::diagnostics *)
RECURSIVE DiagnosticsFrom(_, _)
DiagnosticsFrom(errs, n) ==
  IF errs = << >> THEN << >>
  ELSE LET error == Head(errs)
           rest == DiagnosticsFrom(Tail(errs), n)
       IN  IF error.fallback /\ n > 1 THEN rest
           ELSE <<[line |-> IF error.lineno - 1 > 0 THEN error.lineno - 1 ELSE 0,
                   column |-> IF error.colno - 1 > 0 THEN error.colno - 1 ELSE 0,
                   message |-> error.msg,
                   is_internal |-> error.internal]>> \o rest
diagnostics_of_every_error(d) == DiagnosticsFrom(d.m_errors, 1)
diagnostics(d) == DiagnosticsFrom(d.m_errors, Len(d.m_errors))

(* ----------------------------------------------------------------------- *)
(* The front end's accessors, as the queries use them                      *)
(* ----------------------------------------------------------------------- *)

Min(S) == CHOOSE x \in S : \A y \in S : x <= y
Max(S) == CHOOSE x \in S : \A y \in S : x >= y

(* cpp2::tokens::get_map(): the sections of Cpp2 code, each keyed by the line
   it starts at, with its tokens. The buffers here are one section each. *)
get_map(tokens) ==
  IF TokensOf(tokens.p) = << >> THEN << >>
  ELSE <<[lineno |-> TokensOf(tokens.p)[1].lineno,
          section_tokens |-> TokensOf(tokens.p)]>>

(* All tokens of all sections, in iteration order. *)
RECURSIVE AllTokens(_)
AllTokens(map) ==
  IF map = << >> THEN << >>
  ELSE Head(map).section_tokens \o AllTokens(Tail(map))

NoToken == [lineno |-> 0, colno |-> 0, len |-> 0, str |-> "", lex |-> ""]

(* source position order: (lineno, colno) *)
PosLess(a, b) ==
  a.lineno < b.lineno \/ (a.lineno = b.lineno /\ a.colno < b.colno)

Decl(sema, i) == DeclsOf(sema.p)[i]
is_function(decl) == decl.kind = "function"

(* cpp2::sema::get_declaration_of(token, look_beyond_current_function): the
   declaration the name of the token refers to at the token's position, as
   an index into DeclsOf (0: nullptr). The front end finds the place of the
   token in sema.symbols, then looks backward for the first declaration of
   that name that is not in a deeper scope; unless told to look beyond it,
   it stops at the start of the enclosing named function. *)
RECURSIVE LookBackward(_, _, _, _, _)
LookBackward(sema, i, depth, token, look_beyond) ==
  IF i < 1 THEN 0
  ELSE LET sym == SymbolsOf(sema.p)[i]
       IN  IF sym.isdecl /\ sym.depth <= depth
           THEN IF is_function(Decl(sema, sym.decl)) /\ ~look_beyond THEN 0
                ELSE IF Decl(sema, sym.decl).name = token.str THEN sym.decl
                ELSE LookBackward(sema, i - 1, sym.depth, token, look_beyond)
           ELSE LookBackward(sema, i - 1, depth, token, look_beyond)
get_declaration_of(sema, token, look_beyond) ==
  LET syms == SymbolsOf(sema.p)
      at == {k \in 1..Len(syms) : ~PosLess(syms[k], token)}
      i0 == IF at = {} THEN Len(syms) + 1 ELSE Min(at)
      starts == {k \in 1..Len(syms) : k <= i0 /\ syms[k].start}
  IN  IF token = NoToken \/ starts = {} THEN 0
      ELSE LET i == Max(starts)
           IN  LookBackward(sema, IF PosLess(token, syms[i]) THEN i - 1 ELSE i,
                            syms[i].depth, token, look_beyond)

is_object(decl) == decl.kind = "object"
is_type(decl) == decl.kind = "type"
is_namespace(decl) == decl.kind = "namespace"
is_alias(decl) == decl.kind = "alias"
(* declaration_node::is_global(): no parent declaration *)
is_global(decl) == decl.parent = 0
(* declaration_sym of declaration i: its start entry in sema.symbols *)
DeclSym(sema, i) ==
  LET syms == SymbolsOf(sema.p)
  IN  syms[Min({k \in 1..Len(syms) : syms[k].isdecl /\ syms[k].decl = i})]

(* ----------------------------------------------------------------------- *)
(* ProjectIndex, read side                                                 *)
(* ----------------------------------------------------------------------- *)

(* An entry of m_symbol_map is [name, uri, i]: the key and a pointer to
   m_file_indices[uri].symbols[i]; i = 0: a pointer to a destroyed symbol,
   whose dereference is undefined. *)
NoIndex == [null |-> TRUE]
Deref(index, e) == index.m_file_indices[e.uri].symbols[e.i]

(* ProjectIndex::lookup(name): the symbols of equal_range(name); the order of
   an unordered_multimap's equal elements is unspecified, so symbols[0] is any
   of them. *)
lookup(index, name) ==
  {Deref(index, e) : e \in {x \in index.m_symbol_map : x.name = name}}

(* ProjectIndex::all_symbols(): every symbol of every file record. *)
RECURSIVE AllSymbolsFrom(_, _)
AllSymbolsFrom(index, uris) ==
  IF uris = << >> THEN << >>
  ELSE (IF index.m_file_indices[Head(uris)].present
        THEN index.m_file_indices[Head(uris)].symbols ELSE << >>)
       \o AllSymbolsFrom(index, Tail(uris))
all_symbols(index) == AllSymbolsFrom(index, URIOrder)

(* ----------------------------------------------------------------------- *)
(* Cpp2Document, position queries                                          *)
(* ----------------------------------------------------------------------- *)

None == [found |-> FALSE]

(* "sema_to_use" and "tokens_to_use" of hover, definition and references *)
sema_to_use(d) == IF d.m_sema # NoInst THEN d.m_sema ELSE d.m_cached_sema
tokens_to_use(d) == IF d.m_tokens # NoInst THEN d.m_tokens ELSE d.m_cached_tokens

find_token_at_end_inclusive(d, line, col) ==
  LET tokens == tokens_to_use(d)
      toks == AllTokens(get_map(tokens))
      hits == {k \in 1..Len(toks) :
                 toks[k].lineno = line /\ col >= toks[k].colno
                 /\ col <= toks[k].colno + toks[k].len}
  IN  IF tokens = NoInst \/ hits = {} THEN NoToken ELSE toks[Min(hits)]
(* Cpp2Document::find_token_at(line, col), 1-based *)
find_token_at(d, line, col) ==
  LET tokens == tokens_to_use(d)
      toks == AllTokens(get_map(tokens))
      hits == {k \in 1..Len(toks) :
                 toks[k].lineno = line /\ col >= toks[k].colno
                 /\ col < toks[k].colno + toks[k].len}
  IN  IF tokens = NoInst \/ hits = {} THEN NoToken ELSE toks[Min(hits)]

(* Cpp2Document::build_hover_content(declaration_sym) *)
build_hover_content_decl(sema, i) ==
  LET decl == Decl(sema, i)
      sym == DeclSym(sema, i)
  IN  [code |-> CASE is_function(decl) -> <<decl.sig>>
                  [] is_object(decl) -> <<decl.name, ": ", decl.objtype>>
                  [] is_type(decl) -> <<decl.name, ": type">>
                  [] is_namespace(decl) -> <<decl.name, ": namespace">>
                  [] is_alias(decl) -> <<decl.name, " ==">>
                  [] OTHER -> << >>,
       note |-> IF sym.parameter THEN "*(parameter)*" ELSE ""]

(* Cpp2Document::build_hover_content(IndexedSymbol) *)
build_hover_content_sym(d, sym) ==
  [code |-> CASE sym.kind = "Function" -> <<sym.signature>>
              [] sym.kind = "Type" -> <<sym.name, ": type">>
              [] sym.kind = "Namespace" -> <<sym.name, ": namespace">>
              [] sym.kind = "Variable" -> <<sym.name>>
              [] sym.kind = "Alias" -> <<sym.name, ": ==">>
              [] OTHER -> << >>,
   note |-> IF sym.file_uri # d.m_uri THEN <<"*from ", sym.file_uri, "*">> ELSE ""]

HoverAt(token, contents) ==
  [found |-> TRUE, contents |-> contents,
   start_line |-> token.lineno - 1, start_col |-> token.colno - 1,
   end_line |-> token.lineno - 1, end_col |-> token.colno - 1 + token.len]

get_hover_info_without_sema(d, line, col, index) ==
  LET token == find_token_at(d, line + 1, col + 1)
  IN  IF token = NoToken \/ index = NoIndex \/ lookup(index, token.str) = {}
      THEN {None}
      ELSE {HoverAt(token, build_hover_content_sym(d, s)) :
              s \in lookup(index, token.str)}
(* Cpp2Document::get_hover_info(line, col, index): the set of values the call
   can return (more than one only when the index holds several symbols of
   the name). *)
get_hover_info(d, line, col, index) ==
  IF sema_to_use(d) = NoInst \/ tokens_to_use(d) = NoInst THEN {None}
  ELSE LET token == find_token_at(d, line + 1, col + 1)
           decl_sym == get_declaration_of(sema_to_use(d), token, TRUE)
       IN  IF token = NoToken THEN {None}
           ELSE IF decl_sym # 0
           THEN {HoverAt(token, build_hover_content_decl(sema_to_use(d), decl_sym))}
           ELSE IF index # NoIndex /\ lookup(index, token.str) # {}
           THEN {HoverAt(token, build_hover_content_sym(d, s)) :
                   s \in lookup(index, token.str)}
           ELSE {None}

Location(uri, line, column) ==
  [found |-> TRUE, uri |-> uri, line |-> line, column |-> column]

get_definition_location_index_first(d, line, col, index) ==
  IF sema_to_use(d) = NoInst \/ tokens_to_use(d) = NoInst THEN {None}
  ELSE LET token == find_token_at(d, line + 1, col + 1)
           decl_sym == get_declaration_of(sema_to_use(d), token, TRUE)
       IN  IF token = NoToken THEN {None}
           ELSE IF index # NoIndex /\ lookup(index, token.str) # {}
           THEN {[found |-> TRUE, uri |-> s.file_uri, line |-> s.line,
                  column |-> s.column] : s \in lookup(index, token.str)}
           ELSE IF decl_sym # 0
           THEN {[found |-> TRUE, uri |-> d.m_uri,
                  line |-> Decl(sema_to_use(d), decl_sym).lineno - 1,
                  column |-> Decl(sema_to_use(d), decl_sym).colno - 1]}
           ELSE {None}
(* Cpp2Document::get_definition_location(line, col, index): the set of values
   the call can return. *)
get_definition_location(d, line, col, index) ==
  IF sema_to_use(d) = NoInst \/ tokens_to_use(d) = NoInst THEN {None}
  ELSE LET token == find_token_at(d, line + 1, col + 1)
           decl_sym == get_declaration_of(sema_to_use(d), token, TRUE)
       IN  IF token = NoToken THEN {None}
           ELSE IF decl_sym # 0
           THEN LET pos == Decl(sema_to_use(d), decl_sym)
                IN  {Location(d.m_uri, pos.lineno - 1, pos.colno - 1)}
           ELSE IF index # NoIndex /\ lookup(index, token.str) # {}
           THEN {Location(s.file_uri, s.line, s.column) :
                   s \in lookup(index, token.str)}
           ELSE {None}

(* The entries of a set of positioned records as a sequence in source order. *)
RECURSIVE InSourceOrder(_)
InSourceOrder(S) ==
  IF S = {} THEN << >>
  ELSE LET first == CHOOSE a \in S : \A b \in S : a = b \/ PosLess(a, b)
       IN  <<first>> \o InSourceOrder(S \ {first})

(* The entries of cpp2::sema::declaration_of whose token is the name of the
   declaration itself. Whether the front end's map lists them is not fixed by
   this code, which provides for both (lines 299-304). *)
DeclaringEntries(sema) ==
  {e \in DeclarationOfMap(sema.p) :
     /\ e.lineno = Decl(sema, e.decl).lineno
     /\ e.colno = Decl(sema, e.decl).colno}
declaration_of(sema) ==
  {DeclarationOfMap(sema.p), DeclarationOfMap(sema.p) \ DeclaringEntries(sema)}

LocalReferencesByName(d, sema, target_decl, include_declaration, map) ==
  LET pos == Decl(sema, target_decl)
      refs == {e \in map :
                 /\ e.str = pos.name
                 /\ ~(include_declaration
                      /\ e.lineno - 1 = pos.lineno - 1
                      /\ e.colno - 1 = pos.colno - 1)}
      locs == InSourceOrder({[lineno |-> e.lineno, colno |-> e.colno] : e \in refs})
  IN  (IF include_declaration
       THEN <<Location(d.m_uri, pos.lineno - 1, pos.colno - 1)>>
       ELSE << >>)
      \o [k \in 1..Len(locs) |->
            Location(d.m_uri, locs[k].lineno - 1, locs[k].colno - 1)]
(* lines 276-313: the vector built for a locally resolved declaration when
   the front end's map is map; the map is walked in the order of its tokens. *)
LocalReferences(d, sema, target_decl, include_declaration, map) ==
  LET pos == Decl(sema, target_decl)
      refs == {e \in map :
                 /\ e.decl = target_decl
                 /\ ~(include_declaration
                      /\ e.lineno - 1 = pos.lineno - 1
                      /\ e.colno - 1 = pos.colno - 1)}
      locs == InSourceOrder({[lineno |-> e.lineno, colno |-> e.colno] : e \in refs})
  IN  (IF include_declaration
       THEN <<Location(d.m_uri, pos.lineno - 1, pos.colno - 1)>>
       ELSE << >>)
      \o [k \in 1..Len(locs) |->
            Location(d.m_uri, locs[k].lineno - 1, locs[k].colno - 1)]

get_references_index_always(d, line, col, include_declaration, index) ==
  IF sema_to_use(d) = NoInst \/ tokens_to_use(d) = NoInst THEN {<< >>}
  ELSE LET sema == sema_to_use(d)
           token == find_token_at(d, line + 1, col + 1)
           target_decl == get_declaration_of(sema, token, TRUE)
       IN  IF token = NoToken THEN {<< >>}
           ELSE IF target_decl # 0
           THEN {LocalReferences(d, sema, target_decl, include_declaration, map) :
                   map \in declaration_of(sema)}
           ELSE IF index # NoIndex /\ lookup(index, token.str) # {}
           THEN {<<Location(s.file_uri, s.line, s.column)>> :
                   s \in lookup(index, token.str)}
           ELSE {<< >>}
(* Cpp2Document::get_references(line, col, include_declaration, index): the
   set of vectors the call can return. *)
get_references(d, line, col, include_declaration, index) ==
  IF sema_to_use(d) = NoInst \/ tokens_to_use(d) = NoInst THEN {<< >>}
  ELSE LET sema == sema_to_use(d)
           token == find_token_at(d, line + 1, col + 1)
           target_decl == get_declaration_of(sema, token, TRUE)
       IN  IF token = NoToken THEN {<< >>}
           ELSE IF target_decl # 0
           THEN {LocalReferences(d, sema, target_decl, include_declaration, map) :
                   map \in declaration_of(sema)}
           ELSE IF index # NoIndex /\ include_declaration
                   /\ lookup(index, token.str) # {}
           THEN {<<Location(s.file_uri, s.line, s.column)>> :
                   s \in lookup(index, token.str)}
           ELSE {<< >>}

(* ----------------------------------------------------------------------- *)
(* Cpp2Document::get_completions                                           *)
(* ----------------------------------------------------------------------- *)

(* std::string, 0-based: npos, find(ch, from), substr(pos, n) *)
npos == -1
RECURSIVE find(_, _, _)
find(s, ch, from) ==
  IF from >= Len(s) THEN npos
  ELSE IF s[from + 1] = ch THEN from
  ELSE find(s, ch, from + 1)
substr(s, pos, n) ==
  SubSeq(s, pos + 1, IF pos + n < Len(s) THEN pos + n ELSE Len(s))

Letters ==
  {"a", "b", "c", "d", "e", "f", "g", "h", "i", "j", "k", "l", "m", "n", "o",
   "p", "q", "r", "s", "t", "u", "v", "w", "x", "y", "z",
   "A", "B", "C", "D", "E", "F", "G", "H", "I", "J", "K", "L", "M", "N", "O",
   "P", "Q", "R", "S", "T", "U", "V", "W", "X", "Y", "Z"}
Digits == {"0", "1", "2", "3", "4", "5", "6", "7", "8", "9"}
isspace(c) == c \in {" ", "\t", "\n", "\r", "\f"}
isalnum(c) == c \in Letters \cup Digits

(* get_completions, lines 351-367: the text of the 0-based line *)
RECURSIVE LineStart(_, _, _, _)
LineStart(content, line_start, i, line) ==
  IF i >= line THEN line_start
  ELSE LET nl == find(content, "\n", line_start)
       IN  IF nl = npos THEN npos
           ELSE LineStart(content, nl + 1, i + 1, line)
line_text(d, line) ==
  LET content == Content(d.m_content)
      line_start == LineStart(content, 0, 0, line)
  IN  IF content = << >> \/ line_start = npos THEN << >>
      ELSE LET nl == find(content, "\n", line_start)
               line_end == IF nl = npos THEN Len(content) ELSE nl
           IN  substr(content, line_start, line_end - line_start)

(* get_completions, lines 379-384: the most recent '.' or ':' of the prefix *)
RECURSIVE AccessorPos(_, _)
AccessorPos(prefix, i) ==
  IF i < 0 THEN npos
  ELSE IF prefix[i + 1] = "." \/ prefix[i + 1] = ":" THEN i
  ELSE AccessorPos(prefix, i - 1)
(* lines 394-397 *)
RECURSIVE SkipSpace(_, _)
SkipSpace(prefix, id_end) ==
  IF id_end >= 0 /\ isspace(prefix[id_end + 1])
  THEN SkipSpace(prefix, id_end - 1) ELSE id_end
(* lines 400-406 *)
RECURSIVE IdStart(_, _)
IdStart(prefix, id_start) ==
  IF id_start > 0 /\ (isalnum(prefix[id_start]) \/ prefix[id_start] = "_")
  THEN IdStart(prefix, id_start - 1) ELSE id_start

(* get_completions, lines 369-414: the member access pattern before the
   cursor: is_member_completion, is_member_only and object_name. *)
MemberAccess(text, col) ==
  LET no == [is_member_completion |-> FALSE, is_member_only |-> FALSE,
             object_name |-> << >>]
  IN  IF ~(col > 0 /\ col <= Len(text)) THEN no
      ELSE LET prefix == substr(text, 0, col)
               accessor_pos == AccessorPos(prefix, Len(prefix) - 1)
           IN  IF ~(accessor_pos # npos /\ accessor_pos > 0) THEN no
               ELSE LET is_member_only ==
                          prefix[accessor_pos + 1] = "." /\ prefix[accessor_pos] = "."
                        id_end == SkipSpace(prefix, IF is_member_only
                                                    THEN accessor_pos - 2
                                                    ELSE accessor_pos - 1)
                    IN  IF id_end < 0
                        THEN [no EXCEPT !.is_member_only = is_member_only]
                        ELSE LET id_start == IdStart(prefix, id_end)
                             IN  [is_member_completion |-> TRUE,
                                  is_member_only |-> is_member_only,
                                  object_name |-> SubSeq(prefix, id_start + 1, id_end + 1)]

(* line 417: the branch get_completions takes *)
IsMemberMode(d, line, col) ==
  LET acc == MemberAccess(line_text(d, line), col)
  IN  acc.is_member_completion /\ acc.object_name # << >>

(* lines 420-432 and 607-615: "use cached sema if current is null or empty,
   or there are parse errors and cached sema has more symbols" *)
UseCached(d) ==
  /\ d.m_cached_sema # NoInst
  /\ \/ d.m_sema = NoInst \/ SymbolsOf(d.m_sema.p) = << >>
     \/ /\ ~d.m_valid
        /\ Len(SymbolsOf(d.m_cached_sema.p)) > Len(SymbolsOf(d.m_sema.p))
completion_sema(d) == IF UseCached(d) THEN d.m_cached_sema ELSE d.m_sema
completion_tokens(d) == IF UseCached(d) THEN d.m_cached_tokens ELSE d.m_tokens

(* lines 436-464: the token of the object identifier. lineno is the key of
   the section in get_map(), the line the section starts at. *)
find_object_token(tokens, object_name, target_line, target_col) ==
  LET map == get_map(tokens)
      cands == UNION {
        {map[k].section_tokens[j] : j \in {i \in 1..Len(map[k].section_tokens) :
             /\ ~(map[k].lineno = target_line
                  /\ map[k].section_tokens[i].colno >= target_col)
             /\ map[k].section_tokens[i].lex = "Identifier"
             /\ Spelling(map[k].section_tokens[i].str) = object_name}}
        : k \in {s \in 1..Len(map) : ~(map[s].lineno > target_line)}}
  IN  IF cands = {} THEN NoToken
      ELSE CHOOSE t \in cands : \A u \in cands : u = t \/ PosLess(u, t)

(* The declaration symbols a loop over sema.symbols visits: the start entries
   of declarations, in table order. *)
StartDecls(sema) ==
  SelectSeq(SymbolsOf(sema.p), LAMBDA sym : sym.isdecl /\ sym.start)

is_error_type(type_name) == type_name = "(*ERROR*)"

(* result and seen_names *)
NoItems == [result |-> << >>, seen_names |-> {}]
RECURSIVE AddItems(_, _)
AddItems(acc, items) ==
  IF items = << >> THEN acc
  ELSE LET info == Head(items)
       IN  AddItems(IF info.label = "" \/ info.label \in acc.seen_names THEN acc
                    ELSE [result |-> Append(acc.result, info),
                          seen_names |-> acc.seen_names \cup {info.label}],
                    Tail(items))

(* lines 507-517 and 570-575 *)
MemberItem(decl) ==
  [label |-> decl.name,
   kind |-> IF is_function(decl) THEN "Function" ELSE "Variable",
   detail |-> IF is_function(decl) THEN <<decl.sig>>
              ELSE IF is_object(decl) THEN <<decl.objtype>> ELSE << >>,
   insert_text |-> IF is_function(decl) THEN <<decl.name, "(">> ELSE << >>]

(* lines 489-522: the members of the type declaration *)
TypeMembers(sema, type_decl) ==
  LET syms == SelectSeq(StartDecls(sema),
                        LAMBDA sym : Decl(sema, sym.decl).parent = type_decl)
  IN  [k \in 1..Len(syms) |-> MemberItem(Decl(sema, syms[k].decl))]

(* lines 527-585: the global functions whose first parameter is of the type *)
UFCSFunctions(sema, type_name) ==
  LET syms == SelectSeq(StartDecls(sema),
                        LAMBDA sym :
                          LET func_decl == Decl(sema, sym.decl)
                          IN  /\ is_function(func_decl)
                              /\ func_decl.parent = 0
                              /\ func_decl.param1 # ""
                              /\ ~is_error_type(func_decl.param1)
                              /\ func_decl.param1 = type_name)
  IN  [k \in 1..Len(syms) |-> MemberItem(Decl(sema, syms[k].decl))]

(* lines 416-599: the member branch *)
member_completions(d, line, col, acc) ==
  LET sema == completion_sema(d)
      tokens == completion_tokens(d)
      obj_token == find_object_token(tokens, acc.object_name, line + 1, col + 1)
      decl_sym == get_declaration_of(sema, obj_token, FALSE)
  IN  IF sema = NoInst \/ tokens = NoInst \/ obj_token = NoToken \/ decl_sym = 0
      THEN << >>
      ELSE LET obj_decl == Decl(sema, decl_sym)
               type_name == obj_decl.objtype
               types == SelectSeq(StartDecls(sema),
                                  LAMBDA sym : /\ is_type(Decl(sema, sym.decl))
                                               /\ Decl(sema, sym.decl).name = type_name)
           IN  IF ~is_object(obj_decl) \/ type_name = "" \/ is_error_type(type_name)
                  \/ types = << >>
               THEN << >>
               ELSE LET members == AddItems(NoItems, TypeMembers(sema, types[1].decl))
                    IN  IF acc.is_member_only THEN members.result
                        ELSE AddItems(members, UFCSFunctions(sema, type_name)).result

(* lines 629-662: the function scopes, in table order *)
function_scopes(sema) ==
  SelectSeq(StartDecls(sema), LAMBDA sym : is_function(Decl(sema, sym.decl)))

(* lines 668-690: the function that contains the cursor (0: none) *)
RECURSIVE ContainingFrom(_, _, _, _)
ContainingFrom(sema, scopes, target_line, containing_function) ==
  IF scopes = << >> THEN containing_function
  ELSE LET fs == Head(scopes)
           decl == Decl(sema, fs.decl)
           next ==
             IF fs.lineno > target_line THEN containing_function
             ELSE IF decl.endline > 0 /\ target_line > decl.endline
             THEN containing_function
             ELSE IF containing_function = 0 THEN fs.decl
             ELSE IF fs.depth > 0
                     /\ fs.lineno > Decl(sema, containing_function).lineno
             THEN fs.decl
             ELSE containing_function
       IN  ContainingFrom(sema, Tail(scopes), target_line, next)
containing_function_at(sema, target_line) ==
  ContainingFrom(sema, function_scopes(sema), target_line, 0)

(* lines 730-737: whether the function is on the parent chain of the variable *)
RECURSIVE HasAncestor(_, _, _)
HasAncestor(sema, var_parent, function) ==
  IF var_parent = 0 THEN FALSE
  ELSE IF var_parent = function THEN TRUE
  ELSE HasAncestor(sema, Decl(sema, var_parent).parent, function)

is_visible_declared_before(sema, sym, target_line, containing_function) ==
  LET decl == Decl(sema, sym.decl)
  IN  /\ ~(sym.lineno > target_line)
      /\ IF is_function(decl) \/ is_type(decl) \/ is_namespace(decl)
         THEN is_global(decl)
         ELSE /\ is_object(decl)
              /\ IF containing_function = 0 THEN is_global(decl)
                 ELSE HasAncestor(sema, decl.parent, containing_function)
(* lines 711-739 *)
is_visible(sema, sym, target_line, containing_function) ==
  LET decl == Decl(sema, sym.decl)
  IN  IF is_function(decl) \/ is_type(decl) \/ is_namespace(decl)
      THEN is_global(decl)
      ELSE IF is_object(decl)
      THEN /\ ~(sym.lineno > target_line)
           /\ IF containing_function = 0 THEN is_global(decl)
              ELSE HasAncestor(sema, decl.parent, containing_function)
      ELSE FALSE

(* lines 747-770; an alias has no item *)
SymbolItem(sema, sym) ==
  LET decl == Decl(sema, sym.decl)
  IN  [label |-> decl.name,
       kind |-> CASE is_function(decl) -> "Function"
                  [] is_object(decl) -> IF sym.parameter THEN "Parameter" ELSE "Variable"
                  [] is_type(decl) -> "Type"
                  [] is_namespace(decl) -> "Namespace"
                  [] OTHER -> "",
       detail |-> CASE is_function(decl) -> <<decl.sig>>
                    [] is_object(decl) -> IF sym.parameter
                                          THEN <<"(parameter) ", decl.objtype>>
                                          ELSE <<decl.objtype>>
                    [] is_type(decl) -> <<"type">>
                    [] is_namespace(decl) -> <<"namespace">>
                    [] OTHER -> << >>,
       insert_text |-> IF is_function(decl) THEN <<decl.name, "(">> ELSE << >>]

(* lines 693-773: the visible symbols of the document *)
RECURSIVE VisibleFrom(_, _, _, _, _)
VisibleFrom(sema, syms, target_line, containing_function, acc) ==
  IF syms = << >> THEN acc
  ELSE LET sym == Head(syms)
           name == Decl(sema, sym.decl).name
           next ==
             IF name = "" \/ name \in acc.seen_names THEN acc
             ELSE IF ~is_visible(sema, sym, target_line, containing_function) THEN acc
             ELSE IF SymbolItem(sema, sym).kind = ""
             THEN [acc EXCEPT !.seen_names = @ \cup {name}]
             ELSE [result |-> Append(acc.result, SymbolItem(sema, sym)),
                   seen_names |-> acc.seen_names \cup {name}]
       IN  VisibleFrom(sema, Tail(syms), target_line, containing_function, next)

(* lines 784-809 *)
IndexItem(sym) ==
  [label |-> sym.name,
   kind |-> CASE sym.kind = "Function" -> "Function"
              [] sym.kind = "Type" -> "Type"
              [] sym.kind = "Namespace" -> "Namespace"
              [] sym.kind = "Variable" -> "Variable"
              [] OTHER -> "Type",
   detail |-> CASE sym.kind = "Function" -> <<sym.signature>>
                [] sym.kind = "Type" -> <<"type">>
                [] sym.kind = "Namespace" -> <<"namespace">>
                [] sym.kind = "Variable" -> <<"variable">>
                [] OTHER -> <<"alias">>,
   insert_text |-> IF sym.kind = "Function" THEN <<sym.name, "(">> ELSE << >>]

RECURSIVE AddIndexSymbolsUnfiltered(_, _)
AddIndexSymbolsUnfiltered(acc, syms) ==
  IF syms = << >> THEN acc
  ELSE AddIndexSymbolsUnfiltered(
         [result |-> Append(acc.result, IndexItem(Head(syms))),
          seen_names |-> acc.seen_names \cup {Head(syms).name}],
         Tail(syms))
(* lines 776-813; an empty name is added like any other *)
RECURSIVE AddIndexSymbols(_, _)
AddIndexSymbols(acc, syms) ==
  IF syms = << >> THEN acc
  ELSE AddIndexSymbols(IF Head(syms).name \in acc.seen_names THEN acc
                       ELSE [result |-> Append(acc.result, IndexItem(Head(syms))),
                             seen_names |-> acc.seen_names \cup {Head(syms).name}],
                       Tail(syms))

(* lines 816-852 *)
keywords ==
  <<<<"if", "if () { }">>, <<"else", "else { }">>, <<"while", "while () { }">>,
    <<"for", "for  do { }">>, <<"do", "do { } while ();">>,
    <<"return", "return">>, <<"break", "break">>, <<"continue", "continue">>,
    <<"in", "in">>, <<"out", "out">>, <<"inout", "inout">>, <<"copy", "copy">>,
    <<"move", "move">>, <<"forward", "forward">>, <<"type", "type">>,
    <<"namespace", "namespace">>, <<"true", "true">>, <<"false", "false">>,
    <<"nullptr", "nullptr">>, <<"this", "this">>, <<"that", "that">>,
    <<"inspect", "inspect">>, <<"is", "is">>, <<"as", "as">>,
    <<"throws", "throws">>, <<"pre", "pre">>, <<"post", "post">>,
    <<"assert", "assert">>, <<"public", "public">>, <<"protected", "protected">>,
    <<"private", "private">>, <<"virtual", "virtual">>, <<"override", "override">>,
    <<"final", "final">>, <<"implicit", "implicit">> >>

(* lines 854-862: seen_names is not extended *)
KeywordItems(seen_names) ==
  LET kws == SelectSeq(keywords, LAMBDA kw : kw[1] \notin seen_names)
  IN  [k \in 1..Len(kws) |->
         [label |-> kws[k][1], kind |-> "Keyword", detail |-> <<kws[k][2]>>,
          insert_text |-> << >>]]

(* lines 601-865: regular completion *)
general_completions(d, line, index) ==
  LET sema == completion_sema(d)
      local == IF sema = NoInst THEN NoItems
               ELSE VisibleFrom(sema, StartDecls(sema), line + 1,
                                containing_function_at(sema, line + 1), NoItems)
      global == IF index = NoIndex THEN local
                ELSE AddIndexSymbols(local, all_symbols(index))
  IN  global.result \o KeywordItems(global.seen_names)

get_completions_falling_back(d, line, col, index) ==
  LET acc == MemberAccess(line_text(d, line), col)
  IN  IF /\ acc.is_member_completion /\ acc.object_name # << >>
         /\ member_completions(d, line, col, acc) # << >>
      THEN member_completions(d, line, col, acc)
      ELSE general_completions(d, line, index)
(* Cpp2Document::get_completions(line, col, index) *)
get_completions(d, line, col, index) ==
  LET acc == MemberAccess(line_text(d, line), col)
  IN  IF acc.is_member_completion /\ acc.object_name # << >>
      THEN member_completions(d, line, col, acc)
      ELSE general_completions(d, line, index)

(* ----------------------------------------------------------------------- *)
(* Cpp2Document::get_signature_help                                        *)
(* ----------------------------------------------------------------------- *)

(* lines 906-912: the tokens the scan visits: of each section, those before
   the first token at or after the cursor (break). *)
RECURSIVE ScannedTokens(_, _, _)
ScannedTokens(map, target_line, target_col) ==
  IF map = << >> THEN << >>
  ELSE LET toks == Head(map).section_tokens
           after == {k \in 1..Len(toks) :
                       \/ toks[k].lineno > target_line
                       \/ (toks[k].lineno = target_line
                           /\ toks[k].colno >= target_col)}
       IN  SubSeq(toks, 1, IF after = {} THEN Len(toks) ELSE Min(after) - 1)
           \o ScannedTokens(Tail(map), target_line, target_col)

(* lines 914-939: the state of the scan after the visited tokens.
   paren_depth is the number of "(" minus the number of ")" met. A ")" that
   brings it to 0 resets the scan; after the last reset, the first "(" that
   brings it to 1 sets found_open_paren, each "," at depth 1 after that one
   adds 1 to active_param, and function_name_token is the last identifier
   met at depth 0. *)
ParenDepth(toks, k) ==
  Cardinality({j \in 1..k : toks[j].str = "("})
  - Cardinality({j \in 1..k : toks[j].str = ")"})
ScanCall(toks) ==
  LET n == Len(toks)
      reset == Max({0} \cup {j \in 1..n : toks[j].str = ")" /\ ParenDepth(toks, j) = 0})
      open == {j \in (reset + 1)..n : toks[j].str = "(" /\ ParenDepth(toks, j) = 1}
      names == {j \in (reset + 1)..n : /\ toks[j].lex = "Identifier"
                                        /\ ParenDepth(toks, j) = 0}
  IN  [function_name_token |-> IF names = {} THEN NoToken ELSE toks[Max(names)],
       paren_depth |-> ParenDepth(toks, n),
       active_param |-> IF open = {} THEN 0
                        ELSE Cardinality({j \in (Min(open) + 1)..n :
                                            /\ toks[j].str = ","
                                            /\ ParenDepth(toks, j) = 1}),
       found_open_paren |-> open # {}]

SignatureHelp(label, active_param) ==
  [found |-> TRUE, label |-> label, active_parameter |-> active_param,
   active_signature |-> 0]

(* Cpp2Document::get_signature_help(line, col, index): the set of values the
   call can return. *)
get_signature_help(d, line, col, index) ==
  LET sema == completion_sema(d)
      tokens == tokens_to_use(d)
  IN  IF sema = NoInst \/ tokens = NoInst THEN {None}
      ELSE LET st == ScanCall(ScannedTokens(get_map(tokens), line + 1, col + 1))
               token == st.function_name_token
               decl_info == get_declaration_of(sema, token, TRUE)
               named == SelectSeq(SymbolsOf(sema.p),
                                  LAMBDA sym : /\ sym.isdecl
                                               /\ Decl(sema, sym.decl).name # ""
                                               /\ Decl(sema, sym.decl).name = token.str
                                               /\ is_function(Decl(sema, sym.decl)))
           IN  IF ~st.found_open_paren \/ token = NoToken \/ st.paren_depth # 1
               THEN {None}
               ELSE IF decl_info # 0 /\ is_function(Decl(sema, decl_info))
               THEN {SignatureHelp(Decl(sema, decl_info).sig, st.active_param)}
               ELSE IF named # << >>
               THEN {SignatureHelp(Decl(sema, named[1].decl).sig, st.active_param)}
               ELSE IF index # NoIndex /\ lookup(index, token.str) # {}
               THEN {IF s.kind = "Function"
                     THEN SignatureHelp(IF s.signature = "" THEN s.name
                                        ELSE s.signature, st.active_param)
                     ELSE None : s \in lookup(index, token.str)}
               ELSE {None}

(* ----------------------------------------------------------------------- *)
(* Cpp2Document::get_indexed_symbols                                       *)
(* ----------------------------------------------------------------------- *)

parser_to_use(d) == IF d.m_parser # NoInst THEN d.m_parser ELSE d.m_cached_parser

(* lines 1223-1242; file_uri is set by ProjectIndex::update_file *)
IndexedSymbol(decl) ==
  [name |-> decl.name,
   kind |-> CASE is_function(decl) -> "Function"
              [] is_type(decl) -> "Type"
              [] is_namespace(decl) -> "Namespace"
              [] is_object(decl) -> "Variable"
              [] is_alias(decl) -> "Alias"
              [] OTHER -> "",
   signature |-> IF is_function(decl) THEN decl.sig ELSE "",
   file_uri |-> "",
   line |-> decl.lineno - 1, column |-> decl.colno - 1]

get_indexed_symbols(d) ==
  IF parser_to_use(d) = NoInst \/ tokens_to_use(d) = NoInst
     \/ get_map(tokens_to_use(d)) = << >>
  THEN << >>
  ELSE LET decls == SelectSeq(DeclsOf(parser_to_use(d).p),
                              LAMBDA decl : /\ decl.name # ""
                                            /\ is_global(decl)
                                            /\ IndexedSymbol(decl).kind # "")
       IN  [k \in 1..Len(decls) |-> IndexedSymbol(decls[k])]

(* ----------------------------------------------------------------------- *)
(* Dependency graph: direct includes and their inverse                       *)
(* ----------------------------------------------------------------------- *)

(* The workspace of the graph: a header at the root and two files in a
   directory below it. A path is its directories below the workspace root,
   its stem and its extension ("" when it has none). *)
GraphFiles == {"a.h2", "sub/b.h2", "sub/c.cpp2"}
FilePath(file) ==
  CASE file = "a.h2"       -> [dir |-> << >>, stem |-> "a", ext |-> "h2"]
    [] file = "sub/b.h2"   -> [dir |-> <<"sub">>, stem |-> "b", ext |-> "h2"]
    [] file = "sub/c.cpp2" -> [dir |-> <<"sub">>, stem |-> "c", ext |-> "cpp2"]

(* The names an #include line may carry. *)
IncludeNames ==
  { [dir |-> << >>, stem |-> "a", ext |-> ""],
    [dir |-> << >>, stem |-> "a", ext |-> "h2"],
    [dir |-> << >>, stem |-> "b", ext |-> "h2"],
    [dir |-> <<"sub">>, stem |-> "b", ext |-> ""],
    [dir |-> << >>, stem |-> "c", ext |-> "cpp2"],
    [dir |-> << >>, stem |-> "c", ext |-> ""],
    [dir |-> << >>, stem |-> "missing", ext |-> "h2"] }

NoPath == "(none)"

(* resolve_include(name, from_file): the name relative to the directory of
   from_file, then relative to the workspace root, then both again with the
   default extension (h2) when the name has none; the first existing path
   wins. *)
resolve_include(name, from_file) ==
  LET FileAt(path) ==
        IF \E file \in GraphFiles : FilePath(file) = path
        THEN CHOOSE file \in GraphFiles : FilePath(file) = path
        ELSE NoPath
      Below(dir, n) == [dir |-> dir \o n.dir, stem |-> n.stem, ext |-> n.ext]
      here == FilePath(from_file).dir
      with_ext == [name EXCEPT !.ext = "h2"]
  IN  IF FileAt(Below(here, name)) # NoPath THEN FileAt(Below(here, name))
      ELSE IF FileAt(Below(<< >>, name)) # NoPath THEN FileAt(Below(<< >>, name))
      ELSE IF name.ext # "" THEN NoPath
      ELSE IF FileAt(Below(here, with_ext)) # NoPath THEN FileAt(Below(here, with_ext))
      ELSE FileAt(Below(<< >>, with_ext))

(* The forward edge set of a file: what its include names resolve to; a name
   that resolves to nothing gives no edge. *)
ForwardEdges(file, names) ==
  {resolve_include(name, file) : name \in names} \ {NoPath}

(* Updating reverse for the new forward set of file: file leaves the reverse
   set of every file it included and joins that of every file it includes. *)
ReverseKeepingOld(reverse, file, edges) ==
  [to \in GraphFiles |->
     IF to \in edges THEN reverse[to] \cup {file} ELSE reverse[to]]
ReverseAfter(reverse, file, edges) ==
  [to \in GraphFiles |->
     IF to \in edges THEN reverse[to] \cup {file} ELSE reverse[to] \ {file}]

(* The files handed to the caller for re-diagnosis when file changed: one hop
   along reverse, the changed file itself left out. *)
RECURSIVE Dependents(_, _, _)
Dependents(reverse, files, seen) ==
  LET next == (UNION {reverse[file] : file \in files}) \ seen
  IN  IF next = {} THEN seen ELSE Dependents(reverse, next, seen \cup next)
FlaggedTransitively(reverse, file) == Dependents(reverse, {file}, {}) \ {file}
Flagged(reverse, file) == reverse[file] \ {file}

(* A file is updated with the include names of its new text. *)
UpdateDependencies(file, names) ==
  LET edges == ForwardEdges(file, names)
      reverse == ReverseAfter(m_reverse_dependencies, file, edges)
  IN  /\ m_dependencies' = [m_dependencies EXCEPT ![file] = edges]
      /\ m_reverse_dependencies' = reverse
      /\ flagged' = [file |-> file, files |-> Flagged(reverse, file)]
      /\ UNCHANGED <<m_documents, m_file_indices, m_symbol_map, m_dirty,
                     m_workspace_root, disk, cache_file, now, last, scan, walk>>

GraphNext ==
  \E file \in GraphFiles : \E names \in SUBSET IncludeNames :
    UpdateDependencies(file, names)
(* ----------------------------------------------------------------------- *)
(* Cpp2Document::get_signature_help: the loop over the tokens before the    *)
(* cursor                                                                   *)
(* ----------------------------------------------------------------------- *)

(* lines 904-907 give the loop's locals their first values: no token, depth 0,
   parameter 0, no parenthesis found. *)
ScanStepCountingEveryComma(st, token) ==
  LET met == [st EXCEPT !.toks = Append(@, token)]
  IN  IF token.str = "("
      THEN IF st.paren_depth + 1 = 1 /\ ~st.found_open_paren
           THEN [met EXCEPT !.paren_depth = @ + 1, !.found_open_paren = TRUE,
                            !.active_param = 0]
           ELSE [met EXCEPT !.paren_depth = @ + 1]
      ELSE IF token.str = ")"
      THEN IF st.paren_depth - 1 = 0
           THEN [met EXCEPT !.paren_depth = 0, !.found_open_paren = FALSE,
                            !.function_name_token = NoToken, !.active_param = 0]
           ELSE [met EXCEPT !.paren_depth = @ - 1]
      ELSE IF token.str = "," /\ st.found_open_paren
      THEN [met EXCEPT !.active_param = @ + 1]
      ELSE IF st.paren_depth = 0 /\ token.lex = "Identifier"
      THEN [met EXCEPT !.function_name_token = token]
      ELSE met
(* lines 919-939: the loop's body for one token before the cursor *)
ScanStep(st, token) ==
  LET met == [st EXCEPT !.toks = Append(@, token)]
  IN  IF token.str = "("
      THEN IF st.paren_depth + 1 = 1 /\ ~st.found_open_paren
           THEN [met EXCEPT !.paren_depth = @ + 1, !.found_open_paren = TRUE,
                            !.active_param = 0]
           ELSE [met EXCEPT !.paren_depth = @ + 1]
      ELSE IF token.str = ")"
      THEN IF st.paren_depth - 1 = 0
           THEN [met EXCEPT !.paren_depth = 0, !.found_open_paren = FALSE,
                            !.function_name_token = NoToken, !.active_param = 0]
           ELSE [met EXCEPT !.paren_depth = @ - 1]
      ELSE IF token.str = "," /\ st.paren_depth = 1 /\ st.found_open_paren
      THEN [met EXCEPT !.active_param = @ + 1]
      ELSE IF st.paren_depth = 0 /\ token.lex = "Identifier"
      THEN [met EXCEPT !.function_name_token = token]
      ELSE met

(* lines 910-917: the loop meets the next token before the cursor, one of a
   name, the parentheses and the comma *)
ScanToken ==
  /\ Len(scan.toks) < MaxScan
  /\ \E a \in {<<"f", "Identifier">>, <<"(", "Punct">>, <<")", "Punct">>, <<",", "Punct">>} :
       scan' = ScanStep(scan, [lineno |-> 1, colno |-> Len(scan.toks) + 1, len |-> 1,
                               str |-> a[1], lex |-> a[2]])
  /\ UNCHANGED <<graph_vars, m_documents, m_file_indices, m_symbol_map, m_dirty,
                 m_workspace_root, disk, cache_file, now, last, walk>>
(* ----------------------------------------------------------------------- *)
(* ProjectIndex::find_cpp2_files                                            *)
(* ----------------------------------------------------------------------- *)

(* A path is the sequence of its parts, a part the sequence of its
   characters. The directories a workspace root may be (the last one is not
   there), and what recursive_directory_iterator yields below a root, as
   paths relative to it: a.cpp2, sub/b.h2, .git/c.cpp2, sub/.d.h2, e.txt and
   the directory sub. *)
WorkspaceDirs ==
  {[path |-> <<<<"h">>, <<"w">>>>, exists |-> TRUE],
   [path |-> <<<<"h">>, <<".", "c">>, <<"w">>>>, exists |-> TRUE],
   [path |-> <<<<"h">>, <<"x">>>>, exists |-> FALSE]}
DirEntries ==
  {[rel |-> <<<<"a", ".", "c", "p", "p", "2">>>>, regular |-> TRUE],
   [rel |-> <<<<"s", "u", "b">>, <<"b", ".", "h", "2">>>>, regular |-> TRUE],
   [rel |-> <<<<".", "g", "i", "t">>, <<"c", ".", "c", "p", "p", "2">>>>, regular |-> TRUE],
   [rel |-> <<<<"s", "u", "b">>, <<".", "d", ".", "h", "2">>>>, regular |-> TRUE],
   [rel |-> <<<<"e", ".", "t", "x", "t">>>>, regular |-> TRUE],
   [rel |-> <<<<"s", "u", "b">>>>, regular |-> FALSE]}

(* lines 80-91: the call begins: no file yet; the entries to come are those
   below dir, none when dir does not exist *)
FindStart ==
  /\ walk.todo = {}
  /\ \E dir \in WorkspaceDirs :
       walk' = [dir |-> dir.path, todo |-> IF dir.exists THEN DirEntries ELSE {},
                files |-> << >>]
  /\ UNCHANGED <<graph_vars, scan, m_documents, m_file_indices, m_symbol_map, m_dirty,
                 m_workspace_root, disk, cache_file, now, last>>

(* lines 89-113: the loop body for the entry the iterator yields next.
   extension() is the file name from its last '.', empty when that is its
   first character or there is none. *)
FindEntry ==
  /\ \E entry \in walk.todo :
       LET path == walk.dir \o entry.rel
           filename == path[Len(path)]
           dots == {i \in 1..Len(filename) : filename[i] = "."}
           ext == IF dots = {} \/ Max(dots) = 1 THEN << >>
                  ELSE SubSeq(filename, Max(dots), Len(filename))
           in_hidden_dir == \E k \in 1..Len(path) : path[k] # << >> /\ path[k][1] = "."
       IN  walk' = [walk EXCEPT
                      !.todo = @ \ {entry},
                      !.files = IF /\ entry.regular /\ ~in_hidden_dir
                                   /\ (ext = <<".", "c", "p", "p", "2">> \/ ext = <<".", "h", "2">>)
                                THEN Append(@, path) ELSE @]
  /\ UNCHANGED <<graph_vars, scan, m_documents, m_file_indices, m_symbol_map, m_dirty,
                 m_workspace_root, disk, cache_file, now, last>>

(* ----------------------------------------------------------------------- *)
(* ProjectIndex, write side                                                *)
(* ----------------------------------------------------------------------- *)

NoFileIndex == [present |-> FALSE, mtime |-> 0, symbols |-> << >>]

(* update_file and remove_file, "Rebuild symbol map" *)
RebuildSymbolMap(file_indices) ==
  UNION {{[name |-> file_indices[u].symbols[i].name, uri |-> u, i |-> i] :
            i \in 1..Len(file_indices[u].symbols)} :
         u \in {x \in URIs : file_indices[x].present}}

update_file_keeps_uri(file_indices, uri, symbols, mtime) ==
  [file_indices EXCEPT ![uri] = [present |-> TRUE, mtime |-> mtime, symbols |-> symbols]]
update_file_if_absent(file_indices, uri, symbols, mtime) ==
  IF file_indices[uri].present THEN file_indices
  ELSE [file_indices EXCEPT ![uri] =
          [present |-> TRUE, mtime |-> mtime,
           symbols |-> [k \in 1..Len(symbols) |-> [symbols[k] EXCEPT !.file_uri = uri]]]]
update_file_at_epoch(file_indices, uri, symbols, mtime) ==
  [file_indices EXCEPT ![uri] =
     [present |-> TRUE, mtime |-> 0,
      symbols |-> [k \in 1..Len(symbols) |-> [symbols[k] EXCEPT !.file_uri = uri]]]]
(* ProjectIndex::update_file(uri, symbols): the new m_file_indices; mtime is
   clock::now() *)
update_file(file_indices, uri, symbols, mtime) ==
  [file_indices EXCEPT ![uri] =
     [present |-> TRUE, mtime |-> mtime,
      symbols |-> [k \in 1..Len(symbols) |-> [symbols[k] EXCEPT !.file_uri = uri]]]]

(* ProjectIndex::remove_file(uri): the new m_file_indices *)
remove_file(file_indices, uri) == [file_indices EXCEPT ![uri] = NoFileIndex]

(* The files of the workspace directory. A file that is not there: *)
NoFile == [exists |-> FALSE, mtime |-> 0, text |-> "", readable |-> FALSE]
(* What the workspace's files hold, as the user saves them. *)
DiskBuffers(uri) == IF uri = "main" THEN {"A", "E"} ELSE {"U"}

(* ProjectIndex::find_cpp2_files(m_workspace_root): the regular files with
   extension .cpp2 or .h2 under the root *)
find_cpp2_files == {uri \in URIs : disk[uri].exists}

StaleOrEqual(file_indices, uri) ==
  ~file_indices[uri].present \/ disk[uri].mtime >= file_indices[uri].mtime
(* scan_and_index, lines 198-209: a listed file is skipped when it has a
   record and last_write_time(path) <= the record's mtime. *)
Stale(file_indices, uri) ==
  ~(file_indices[uri].present /\ disk[uri].mtime <= file_indices[uri].mtime)

(* ProjectIndex::index_file(path): nullopt (the empty set) when the file cannot
   be opened, else the record a fresh Cpp2Document gives for its content, one
   for each behaviour of the front end and of the temporary file. *)
index_file(uri) ==
  IF ~disk[uri].readable THEN {}
  ELSE LET content == disk[uri].text
       IN  UNION {{[present |-> TRUE, mtime |-> disk[uri].mtime,
                    symbols |->
                      LET symbols == get_indexed_symbols(
                                       update(NewDoc(uri), content, env, v, stage))
                      IN  [k \in 1..Len(symbols) |->
                             [symbols[k] EXCEPT !.file_uri = uri]]] :
                   env \in Envs(uri, content), stage \in Stages(v)} :
                  v \in Variants(content)}

(* scan_and_index, the loop body for one uri: the records it can be left
   with, indexed being what index_file gives for a listed file that is not
   skipped (the empty set for a file skipped, not listed or not indexable). *)
ScanOutcomes(record, indexed) ==
  IF indexed # {} THEN indexed ELSE {record}

(* kIndexVersion, and the version string of a cache another release wrote *)
kIndexVersion == "1"
ForeignVersion == "0"
(* The cache file .cpp2ls/index.json under the root; parses: the file is a
   JSON document; bad: the number of the first object of "files" that cannot be
   read as a record (a missing key, a value of another type), 0 when every
   object can. *)
NoCache ==
  [exists |-> FALSE, version |-> "", files |-> << >>, parses |-> TRUE, bad |-> 0]

symbol_kind_to_string_class(kind) ==
  CASE kind = "Function" -> "function"
    [] kind = "Type" -> "class"
    [] kind = "Namespace" -> "namespace"
    [] kind = "Variable" -> "variable"
    [] kind = "Alias" -> "alias"
    [] OTHER -> "unknown"
(* symbol_kind_to_string and string_to_symbol_kind *)
symbol_kind_to_string(kind) ==
  CASE kind = "Function" -> "function"
    [] kind = "Type" -> "type"
    [] kind = "Namespace" -> "namespace"
    [] kind = "Variable" -> "variable"
    [] kind = "Alias" -> "alias"
    [] OTHER -> "unknown"
string_to_symbol_kind(str) ==
  CASE str = "function" -> "Function"
    [] str = "type" -> "Type"
    [] str = "namespace" -> "Namespace"
    [] str = "variable" -> "Variable"
    [] str = "alias" -> "Alias"
    [] OTHER -> "Function"

(* save_to_cache, lines 316-336: the "files" array, one object for each
   record; a symbol's file_uri is not written, an empty signature is left
   out. *)
FilesJson(file_indices) ==
  LET uris == SelectSeq(URIOrder, LAMBDA u : file_indices[u].present)
  IN  [n \in 1..Len(uris) |->
         LET file_index == file_indices[uris[n]]
         IN  [uri |-> uris[n], mtime |-> file_index.mtime,
              symbols |->
                [k \in 1..Len(file_index.symbols) |->
                   LET sym == file_index.symbols[k]
                   IN  [name |-> sym.name, kind |-> symbol_kind_to_string(sym.kind),
                        has_signature |-> sym.signature # "",
                        signature |-> sym.signature,
                        line |-> sym.line, column |-> sym.column]]]]

(* load_from_cache, lines 255-275: the records read from the "files" array; a
   later object of the same uri replaces an earlier one. *)
RECURSIVE LoadFiles(_, _)
LoadFiles(file_indices, files_json) ==
  IF files_json = << >> THEN file_indices
  ELSE LET file_json == Head(files_json)
           file_index ==
             [present |-> TRUE, mtime |-> file_json.mtime,
              symbols |->
                [k \in 1..Len(file_json.symbols) |->
                   LET sym_json == file_json.symbols[k]
                   IN  [name |-> sym_json.name,
                        kind |-> string_to_symbol_kind(sym_json.kind),
                        signature |-> IF sym_json.has_signature
                                      THEN sym_json.signature ELSE "",
                        file_uri |-> file_json.uri,
                        line |-> sym_json.line, column |-> sym_json.column]]]
       IN  LoadFiles([file_indices EXCEPT ![file_json.uri] = file_index],
                     Tail(files_json))

(* The ProjectIndex object: its members as one value. *)
ThisIndex ==
  [m_file_indices |-> m_file_indices, m_symbol_map |-> m_symbol_map,
   m_dirty |-> m_dirty]
EmptyIndex ==
  [m_file_indices |-> [uri \in URIs |-> NoFileIndex], m_symbol_map |-> {},
   m_dirty |-> FALSE]

(* scan_and_index after the loop: "Rebuild symbol map" and m_dirty when any
   file was indexed. The files are handled one by one, each left with one of
   its ScanOutcomes. *)
ScanResults(this, indexed) ==
  LET any_indexed == \E uri \in URIs : indexed[uri] # {}
  IN  {[index |-> IF any_indexed
                  THEN [m_file_indices |-> file_indices,
                        m_symbol_map |-> RebuildSymbolMap(file_indices),
                        m_dirty |-> TRUE]
                  ELSE this,
        ret |-> any_indexed] :
       file_indices \in
         {f \in [URIs -> UNION {ScanOutcomes(this.m_file_indices[uri], indexed[uri]) :
                                uri \in URIs}] :
            \A uri \in URIs :
              f[uri] \in ScanOutcomes(this.m_file_indices[uri], indexed[uri])}}

(* ProjectIndex::scan_and_index() on the index this, with workspace root
   root: the index afterwards and the value returned. *)
scan_and_index(this, root) ==
  IF root = "" THEN {[index |-> this, ret |-> FALSE]}
  ELSE ScanResults(this,
                   [uri \in URIs |->
                      IF uri \in find_cpp2_files /\ Stale(this.m_file_indices, uri)
                      THEN index_file(uri) ELSE {}])

load_from_cache_any_version(this, cache) ==
  IF ~cache.exists THEN [index |-> this, ret |-> FALSE]
  ELSE LET file_indices == LoadFiles([uri \in URIs |-> NoFileIndex], cache.files)
       IN  [index |-> [m_file_indices |-> file_indices,
                       m_symbol_map |-> RebuildSymbolMap(file_indices),
                       m_dirty |-> FALSE],
            ret |-> TRUE]
(* ProjectIndex::load_from_cache() on the index this, reading cache. An
   exception thrown by "file >> j" leaves the index alone; one thrown while
   the objects of "files" are read comes after m_file_indices.clear() and
   before the symbol map is rebuilt: the records read so far stay, the dirty
   flag is as before, and every entry of the map points to a symbol that
   clear() destroyed (i = 0). *)
load_from_cache(this, cache) ==
  IF ~cache.exists \/ ~cache.parses THEN [index |-> this, ret |-> FALSE]
  ELSE IF cache.version # kIndexVersion THEN [index |-> this, ret |-> FALSE]
  ELSE IF cache.bad # 0
  THEN [index |-> [this EXCEPT
                     !.m_file_indices =
                        LoadFiles([uri \in URIs |-> NoFileIndex],
                                  SubSeq(cache.files, 1, cache.bad - 1)),
                     !.m_symbol_map = {[e EXCEPT !.i = 0] : e \in @}],
        ret |-> FALSE]
  ELSE LET file_indices == LoadFiles([uri \in URIs |-> NoFileIndex], cache.files)
       IN  [index |-> [m_file_indices |-> file_indices,
                       m_symbol_map |-> RebuildSymbolMap(file_indices),
                       m_dirty |-> FALSE],
            ret |-> TRUE]

(* ProjectIndex::save_to_cache() const on the index this: the cache file
   afterwards and the value returned. writable: create_directories succeeds
   and the file opens for writing. *)
save_to_cache(this, cache, writable) ==
  IF ~this.m_dirty THEN [cache |-> cache, ret |-> TRUE]
  ELSE IF ~writable THEN [cache |-> cache, ret |-> FALSE]
  ELSE [cache |-> [exists |-> TRUE, version |-> kIndexVersion,
                   files |-> FilesJson(this.m_file_indices),
                   parses |-> TRUE, bad |-> 0],
        ret |-> TRUE]

(* ProjectIndex::is_dirty *)
is_dirty(this) == this.m_dirty

(* &m_index, as the handlers pass it to the document *)
Index == [m_file_indices |-> m_file_indices, m_symbol_map |-> m_symbol_map]

(* ----------------------------------------------------------------------- *)
(* Server                                                                  *)
(* ----------------------------------------------------------------------- *)

(* The parse and the index update both notifications run on the document. *)
UpdateDocument(op, uri, pre, text, env, v, stage) ==
  LET doc == update(pre, text, env, v, stage)
      file_indices == update_file(m_file_indices, uri, get_indexed_symbols(doc), now)
  IN  /\ m_documents' = [m_documents EXCEPT ![uri] = doc]
      /\ m_file_indices' = file_indices
      /\ m_symbol_map' = RebuildSymbolMap(file_indices)
      /\ m_dirty' = TRUE
      /\ UNCHANGED <<graph_vars, scan, walk, m_workspace_root, disk, cache_file, now>>
      /\ last' = [op |-> op, uri |-> uri, text |-> text, env |-> env, v |-> v,
                  stage |-> stage, pre |-> pre]

(* Server::handle_did_open. The editor opens a document that is not open
   (try_emplace inserts). *)
handle_did_open(uri) ==
  /\ ~m_documents[uri].open
  /\ \E text \in Buffers(uri) : \E env \in Envs(uri, text) :
       \E v \in Variants(text) : \E stage \in Stages(v) :
         UpdateDocument("didOpen", uri, NewDoc(uri), text, env, v, stage)

(* Server::handle_did_change, one whole-document change *)
handle_did_change(uri) ==
  \/ /\ ~m_documents[uri].open
     /\ last' = [op |-> "Failure", uri |-> uri, text |-> "", env |-> "", v |-> "",
                 stage |-> "", pre |-> NoDoc]
     /\ UNCHANGED <<graph_vars, scan, walk, m_documents, m_file_indices, m_symbol_map, m_dirty,
                    m_workspace_root, disk, cache_file, now>>
  \/ /\ m_documents[uri].open
     /\ \E text \in Buffers(uri) : \E env \in Envs(uri, text) :
          \E v \in Variants(text) : \E stage \in Stages(v) :
            UpdateDocument("didChange", uri, m_documents[uri], text, env, v, stage)

(* Server::handle_did_close. The editor closes a document it has opened. *)
handle_did_close(uri) ==
  /\ m_documents[uri].open
  /\ m_documents' = [m_documents EXCEPT ![uri] = NoDoc]
  /\ last' = [op |-> "didClose", uri |-> uri, text |-> "", env |-> "", v |-> "",
              stage |-> "", pre |-> m_documents[uri]]
  /\ UNCHANGED <<graph_vars, scan, walk, m_file_indices, m_symbol_map, m_dirty,
                 m_workspace_root, disk, cache_file, now>>

(* Server::handle_hover, handle_definition, handle_references,
   handle_completion: Null for a document that is not open, else the
   document's answer with &m_index. *)
handle_hover(uri, line, col) ==
  IF ~m_documents[uri].open THEN {None}
  ELSE get_hover_info(m_documents[uri], line, col, Index)
handle_definition(uri, line, col) ==
  IF ~m_documents[uri].open THEN {None}
  ELSE {IF def_loc = None THEN None
        ELSE [found |-> TRUE,
              uri |-> IF def_loc.uri = "" THEN uri ELSE def_loc.uri,
              start |-> [line |-> def_loc.line, character |-> def_loc.column],
              end |-> [line |-> def_loc.line, character |-> def_loc.column + 1]] :
        def_loc \in get_definition_location(m_documents[uri], line, col, Index)}
handle_references(uri, line, col, include_declaration) ==
  IF ~m_documents[uri].open THEN {<< >>}
  ELSE get_references(m_documents[uri], line, col, include_declaration, Index)
handle_completion(uri, line, col) ==
  IF ~m_documents[uri].open THEN << >>
  ELSE get_completions(m_documents[uri], line, col, Index)

Init ==
  /\ m_documents = [uri \in URIs |-> NoDoc]
  /\ m_file_indices = [uri \in URIs |-> NoFileIndex]
  /\ m_symbol_map = {}
  /\ m_dirty = FALSE
  /\ m_workspace_root = ""
  /\ disk = [uri \in URIs |-> NoFile]
  /\ cache_file = NoCache
  /\ now = 0
  /\ last = [op |-> "init", uri |-> "", text |-> "", env |-> "", v |-> "",
             stage |-> "", pre |-> NoDoc]
  /\ m_dependencies = [file \in GraphFiles |-> {}]
  /\ m_reverse_dependencies = [file \in GraphFiles |-> {}]
  /\ flagged = [file |-> NoPath, files |-> {}]
  /\ scan = [toks |-> << >>, function_name_token |-> NoToken, paren_depth |-> 0,
             active_param |-> 0, found_open_paren |-> FALSE]
  /\ walk = [dir |-> << >>, todo |-> {}, files |-> << >>]

Next ==
  \E uri \in URIs :
    \/ handle_did_open(uri)
    \/ handle_did_change(uri)
    \/ handle_did_close(uri)

Spec == Init /\ [][Next]_vars

(* ----------------------------------------------------------------------- *)
(* ProjectIndex over the workspace directory and the cache file             *)
(* ----------------------------------------------------------------------- *)

(* History of the index operations: the operation that ran last, its uri,
   what identifies its input, the value it returned, and whether this was a
   repeated call (the same call ran just before, with nothing but the clock
   in between); for load_from_cache, whether it read the file that
   save_to_cache had just written from this index. scanned: what
   scan_and_index returned inside handle_initialize. *)
Ran(op, uri, arg, ret, again) ==
  [op |-> op, uri |-> uri, arg |-> arg, ret |-> ret, again |-> again,
   scanned |-> FALSE]

SetIndex(index) ==
  /\ m_file_indices' = index.m_file_indices
  /\ m_symbol_map' = index.m_symbol_map
  /\ m_dirty' = index.m_dirty

(* The clock advances. *)
Tick ==
  /\ now < MaxClock
  /\ now' = now + 1
  /\ UNCHANGED <<graph_vars, scan, walk, m_documents, m_file_indices, m_symbol_map, m_dirty,
                 m_workspace_root, disk, cache_file, last>>

(* The user saves a workspace file: its modification time is the clock's. *)
WriteFile(uri) ==
  /\ \E text \in DiskBuffers(uri) :
       disk' = [disk EXCEPT ![uri] = [exists |-> TRUE, mtime |-> now,
                                      text |-> text, readable |-> TRUE]]
  /\ last' = Ran("env", "", << >>, FALSE, FALSE)
  /\ UNCHANGED <<graph_vars, scan, walk, m_documents, m_file_indices, m_symbol_map, m_dirty,
                 m_workspace_root, cache_file, now>>

(* The user changes a file's permissions: it is listed, but opening it may
   fail. The modification time stays. *)
Chmod(uri) ==
  /\ disk[uri].exists
  /\ disk' = [disk EXCEPT ![uri].readable = ~@]
  /\ last' = Ran("env", "", << >>, FALSE, FALSE)
  /\ UNCHANGED <<graph_vars, scan, walk, m_documents, m_file_indices, m_symbol_map, m_dirty,
                 m_workspace_root, cache_file, now>>

(* The user deletes a workspace file. *)
DeleteFile(uri) ==
  /\ disk[uri].exists
  /\ disk' = [disk EXCEPT ![uri] = NoFile]
  /\ last' = Ran("env", "", << >>, FALSE, FALSE)
  /\ UNCHANGED <<graph_vars, scan, walk, m_documents, m_file_indices, m_symbol_map, m_dirty,
                 m_workspace_root, cache_file, now>>

(* What a cache written by another release holds: records of both files, as
   new as the clock allows. *)
ForeignFiles ==
  FilesJson([uri \in URIs |->
               [present |-> TRUE, mtime |-> MaxClock,
                symbols |-> <<[name |-> "old", kind |-> "Function",
                               signature |-> "old: ()", file_uri |-> uri,
                               line |-> 0, column |-> 0]>>]])

(* Another release of the server leaves its cache file in the workspace. *)
WriteForeignCache ==
  /\ cache_file' = [exists |-> TRUE, version |-> ForeignVersion,
                    files |-> ForeignFiles,
                    parses |-> TRUE, bad |-> 0]
  /\ last' = Ran("env", "", << >>, FALSE, FALSE)
  /\ UNCHANGED <<graph_vars, scan, walk, m_documents, m_file_indices, m_symbol_map, m_dirty,
                 m_workspace_root, disk, now>>

(* The cache file is damaged (cut short, edited by hand): it is no JSON
   document any more, or one object of "files" cannot be read as a record. *)
DamageCache ==
  /\ cache_file.exists /\ cache_file.parses /\ cache_file.bad = 0
  /\ \/ cache_file' = [cache_file EXCEPT !.parses = FALSE]
     \/ \E n \in 1..Len(cache_file.files) :
          cache_file' = [cache_file EXCEPT !.bad = n]
  /\ last' = Ran("env", "", << >>, FALSE, FALSE)
  /\ UNCHANGED <<graph_vars, scan, walk, m_documents, m_file_indices, m_symbol_map, m_dirty,
                 m_workspace_root, disk, now>>

(* What the handlers pass to update_file: get_indexed_symbols() of a document
   just updated with content input[1], the temporary file being created or
   not (input[2]). *)
UpdateInputs(uri) == DiskBuffers(uri) \X {"ok", "tmpfail"}
SymbolInput(uri, input) ==
  get_indexed_symbols(update(NewDoc(uri), input[1], input[2], "ok", "none"))

(* m_index.update_file(uri, symbols) *)
UpdateFile(uri) ==
  \E input \in UpdateInputs(uri) :
    LET symbols == SymbolInput(uri, input)
        file_indices == update_file(m_file_indices, uri, symbols, now)
    IN  /\ m_file_indices' = file_indices
        /\ m_symbol_map' = RebuildSymbolMap(file_indices)
        /\ m_dirty' = TRUE
        /\ last' = Ran("update_file", uri, input, FALSE,
                        /\ last.op = "update_file" /\ last.uri = uri
                        /\ SymbolInput(uri, last.arg) = symbols)
        /\ UNCHANGED <<graph_vars, scan, walk, m_documents, m_workspace_root, disk, cache_file, now>>

(* m_index.remove_file(uri) *)
RemoveFile(uri) ==
  LET file_indices == remove_file(m_file_indices, uri)
  IN  /\ m_file_indices' = file_indices
      /\ m_symbol_map' = RebuildSymbolMap(file_indices)
      /\ m_dirty' = TRUE
      /\ last' = Ran("remove_file", uri, << >>, FALSE, FALSE)
      /\ UNCHANGED <<graph_vars, scan, walk, m_documents, m_workspace_root, disk, cache_file, now>>

(* m_index.mark_dirty() *)
MarkDirty ==
  /\ m_dirty' = TRUE
  /\ last' = Ran("mark_dirty", "", << >>, FALSE, FALSE)
  /\ UNCHANGED <<graph_vars, scan, walk, m_documents, m_file_indices, m_symbol_map,
                 m_workspace_root, disk, cache_file, now>>

(* m_index.scan_and_index() *)
ScanAndIndex ==
  \E r \in scan_and_index(ThisIndex, m_workspace_root) :
    /\ SetIndex(r.index)
    /\ last' = Ran("scan_and_index", "", << >>, r.ret, last.op = "scan_and_index")
    /\ UNCHANGED <<graph_vars, scan, walk, m_documents, m_workspace_root, disk, cache_file, now>>

(* m_index.load_from_cache(), the cache file being the one under the root *)
LoadFromCache ==
  /\ m_workspace_root # ""
  /\ LET r == load_from_cache(ThisIndex, cache_file)
     IN  /\ SetIndex(r.index)
         /\ last' = Ran("load_from_cache", "", <<cache_file.version>>, r.ret,
                         last.op = "save_to_cache" /\ last.ret /\ m_dirty)
  /\ UNCHANGED <<graph_vars, scan, walk, m_documents, m_workspace_root, disk, cache_file, now>>

(* m_index.save_to_cache() *)
SaveToCache ==
  /\ m_workspace_root # ""
  /\ \E writable \in BOOLEAN :
       LET r == save_to_cache(ThisIndex, cache_file, writable)
       IN  /\ cache_file' = r.cache
           /\ last' = Ran("save_to_cache", "", << >>, r.ret, FALSE)
  /\ UNCHANGED <<graph_vars, scan, walk, m_documents, m_file_indices, m_symbol_map, m_dirty,
                 m_workspace_root, disk, now>>

(* The workspace root of the initialize request, as a path *)
RootPath == "/ws"

(* Server::handle_initialize, lines 126-149, the first request of a session:
   set_workspace_root, load_from_cache, then scan_and_index and
   save_to_cache. ret: what load_from_cache returned. *)
handle_initialize ==
  /\ m_workspace_root = ""
  /\ m_workspace_root' = RootPath
  /\ LET loaded == load_from_cache(ThisIndex, cache_file)
     IN  \E scanned \in scan_and_index(loaded.index, RootPath) :
         \E writable \in BOOLEAN :
           /\ SetIndex(scanned.index)
           /\ cache_file' = IF ~loaded.ret \/ scanned.ret
                            THEN save_to_cache(scanned.index, cache_file, writable).cache
                            ELSE cache_file
           /\ last' = [Ran("initialize", "", <<cache_file.version>>, loaded.ret,
                            FALSE) EXCEPT !.scanned = scanned.ret]
  /\ UNCHANGED <<graph_vars, scan, walk, m_documents, disk, now>>

(* The server process ends and a new one starts: the members are those of a
   new Server, the files stay. *)
Restart ==
  /\ m_workspace_root # ""
  /\ m_workspace_root' = ""
  /\ SetIndex(EmptyIndex)
  /\ last' = Ran("Restart", "", << >>, FALSE, FALSE)
  /\ UNCHANGED <<graph_vars, scan, walk, m_documents, disk, cache_file, now>>

(* m_index.set_workspace_root(root) *)
SetWorkspaceRoot ==
  /\ m_workspace_root = ""
  /\ m_workspace_root' = RootPath
  /\ last' = Ran("set_workspace_root", "", << >>, FALSE, FALSE)
  /\ UNCHANGED <<graph_vars, scan, walk, m_documents, m_file_indices, m_symbol_map, m_dirty,
                 disk, cache_file, now>>

(* The index and the workspace directory: the methods of one ProjectIndex,
   called in any order while the user edits the files. *)
IndexNext ==
  \/ Tick
  \/ \E uri \in URIs : WriteFile(uri)
  \/ \E uri \in URIs : Chmod(uri)
  \/ \E uri \in URIs : DeleteFile(uri)
  \/ SetWorkspaceRoot
  \/ \E uri \in URIs : UpdateFile(uri)
  \/ \E uri \in URIs : RemoveFile(uri)
  \/ ScanAndIndex

IndexSpec == Init /\ [][IndexNext]_vars

(* The index and its cache file over the sessions of the server; the editor
   sends its document notifications after initialize. *)
CacheNext ==
  \/ \E uri \in URIs : WriteFile(uri)
  \/ WriteForeignCache
  \/ DamageCache
  \/ handle_initialize
  \/ SetWorkspaceRoot
  \/ (m_workspace_root # "" /\ \E uri \in URIs : UpdateFile(uri))
  \/ (m_workspace_root # "" /\ \E uri \in URIs : RemoveFile(uri))
  \/ (m_workspace_root # "" /\ ScanAndIndex)
  \/ (m_workspace_root # "" /\ MarkDirty)
  \/ LoadFromCache
  \/ SaveToCache
  \/ Restart

CacheSpec == Init /\ [][CacheNext]_vars

(* The cursor positions of the queries, 0-based *)
Lines == 0..MaxLine
Cols == 0..MaxCol

(* The dependency graph alone, under updates of the files' include sets. *)
GraphSpec == Init /\ [][GraphNext]_vars

(* The token loop of get_signature_help alone, over the tokens before the
   cursor. *)
ScanSpec == Init /\ [][ScanToken]_vars

(* find_cpp2_files alone, over the entries of a directory tree. *)
FindSpec == Init /\ [][FindStart \/ FindEntry]_vars

(* ----------------------------------------------------------------------- *)
(* Properties                                                              *)
(* ----------------------------------------------------------------------- *)

Range(s) == {s[k] : k \in 1..Len(s)}

(* The last handler ran Cpp2Document::update; Doc is the session after it,
   last.pre the session before it. *)
Updated == last.op \in {"didOpen", "didChange"}
Doc == m_documents[last.uri]

CachedSnapshot(d) ==
  <<d.m_cached_source, d.m_cached_tokens, d.m_cached_parser, d.m_cached_sema>>
CurrentSnapshot(d) == <<d.m_source, d.m_tokens, d.m_parser, d.m_sema>>
NoSnapshot == <<NoInst, NoInst, NoInst, NoInst>>

(* The objects the last update call created. *)
NewParse == [p |-> <<last.text, last.v>>, addr |-> FreshAddr(last.pre)]
(* The last update call parsed its text, without diagnostics, into at least
   one declaration. *)
CleanAndNonEmpty ==
  /\ last.env = "ok" /\ has_cpp2(last.text) /\ ~Throws(NewParse.p)
  /\ Doc.m_errors = << >>
  /\ DeclsOf(NewParse.p) # << >>

(* C1: after every update call, the last-good snapshot is the new parse if
   and only if that parse gave zero diagnostics and at least one
   declaration; in every other outcome it is exactly the snapshot (the very
   objects) held before the call. *)
C1_PromotionRule ==
  Updated =>
    IF CleanAndNonEmpty
    THEN /\ CachedSnapshot(Doc) = <<NewParse, NewParse, NewParse, NewParse>>
         /\ CachedSnapshot(Doc) # CachedSnapshot(last.pre)
    ELSE CachedSnapshot(Doc) = CachedSnapshot(last.pre)

(* A clean parse replaced an older last-good snapshot. *)
C1_Witness ==
  /\ Updated /\ CleanAndNonEmpty
  /\ last.pre.m_cached_sema # NoInst
  /\ Doc.m_cached_sema # last.pre.m_cached_sema

(* The clean, non-empty parse of the text of d is its last-good snapshot and
   nothing newer is held. *)
CleanState(d) ==
  /\ d.open /\ d.m_valid /\ d.m_errors = << >>
  /\ CurrentSnapshot(d) = NoSnapshot
  /\ d.m_cached_sema # NoInst
  /\ d.m_cached_sema.p[1] = d.m_content

(* C2: when an update that gave a clean, non-empty parse is followed by an
   update whose text parses with diagnostics, get_hover_info and
   get_completions return at every position what they returned before the
   broken edit. *)
C2_AvailabilityOverFreshness ==
  (/\ Updated /\ CleanState(last.pre)
   /\ last.env = "ok" /\ Doc.m_errors # << >>)
  => \A line \in Lines, col \in Cols :
       /\ get_hover_info(Doc, line, col, Index)
            = get_hover_info(last.pre, line, col, Index)
       /\ get_completions(Doc, line, col, Index)
            = get_completions(last.pre, line, col, Index)

(* C3: when the front end throws during update, update still returns: a
   diagnostic carrying the exception is recorded, is_valid() is false and
   the last-good snapshot is the one held before; and an update that
   follows a thrown one is processed as any other: a clean, non-empty parse
   is valid, has no diagnostics and becomes the last-good snapshot. *)
C3_ExceptionCaught ==
  /\ (Updated /\ last.env = "ok" /\ last.v = "throw")
     => /\ \E diag \in Range(diagnostics(Doc)) : diag.message = ParserException.msg
        /\ ~is_valid(Doc)
        /\ CachedSnapshot(Doc) = CachedSnapshot(last.pre)
  /\ (Updated /\ ParserException \in Range(last.pre.m_errors) /\ CleanAndNonEmpty)
     => /\ is_valid(Doc)
        /\ diagnostics(Doc) = << >>
        /\ Doc.m_cached_sema = NewParse

(* The front end threw while a last-good snapshot was held. *)
C3_Witness ==
  /\ Updated /\ last.env = "ok" /\ last.v = "throw"
  /\ last.pre.m_cached_sema # NoInst
  /\ ParserException \in Range(Doc.m_errors)

(* C4, as the code has it: when update cannot create the temporary file it
   records exactly one diagnostic and keeps the last-good snapshot, but the
   current snapshot is discarded (it was reset before the file was tried). *)
C4_InputPreparationFailure ==
  (Updated /\ last.env = "tmpfail")
  => /\ Len(diagnostics(Doc)) = 1
     /\ diagnostics(Doc)[1].message = TempFileError.msg
     /\ ~is_valid(Doc)
     /\ CachedSnapshot(Doc) = CachedSnapshot(last.pre)
     /\ CurrentSnapshot(Doc) = NoSnapshot

(* The temporary file failed for a session that held a current snapshot and
   a last-good one. *)
C4_Witness ==
  /\ Updated /\ last.env = "tmpfail"
  /\ last.pre.m_sema # NoInst
  /\ last.pre.m_cached_sema # NoInst

(* C4 as stated: after the failed update both the current and the last-good
   snapshot are the ones held before the call, and every position query
   answers as before. *)
C4_SnapshotStateUnchanged ==
  (Updated /\ last.env = "tmpfail")
  => /\ Len(diagnostics(Doc)) = 1
     /\ CachedSnapshot(Doc) = CachedSnapshot(last.pre)
     /\ CurrentSnapshot(Doc) = CurrentSnapshot(last.pre)
     /\ \A line \in Lines, col \in Cols :
          /\ get_hover_info(Doc, line, col, Index)
               = get_hover_info(last.pre, line, col, Index)
          /\ get_definition_location(Doc, line, col, Index)
               = get_definition_location(last.pre, line, col, Index)

(* The session holds neither a current nor a last-good semantic table. *)
NoSnapshotHeld(d) == d.open /\ d.m_sema = NoInst /\ d.m_cached_sema = NoInst

(* C5, as the code has it: a session without any snapshot answers hover,
   definition, references and signature help with "not found" at every
   position and member completion with the empty list; general completion
   still lists the symbols of the project index and the keywords, and no
   item that comes from the document. *)
C5_NoSnapshotNoResult ==
  \A uri \in URIs :
    NoSnapshotHeld(m_documents[uri]) =>
      \A line \in Lines, col \in Cols :
        LET d == m_documents[uri]
        IN  /\ get_hover_info(d, line, col, Index) = {None}
            /\ get_definition_location(d, line, col, Index) = {None}
            /\ get_references(d, line, col, TRUE, Index) = {<< >>}
            /\ get_references(d, line, col, FALSE, Index) = {<< >>}
            /\ get_signature_help(d, line, col, Index) = {None}
            /\ IF IsMemberMode(d, line, col)
               THEN get_completions(d, line, col, Index) = << >>
               ELSE \A item \in Range(get_completions(d, line, col, Index)) :
                      \/ item \in Range(KeywordItems({}))
                      \/ \E sym \in Range(all_symbols(Index)) : item = IndexItem(sym)

(* A session whose only parse threw (it holds tokens, no semantic table),
   while the index knows symbols of another file. *)
C5_Witness ==
  /\ NoSnapshotHeld(m_documents["main"])
  /\ m_documents["main"].m_tokens # NoInst
  /\ m_file_indices["utils"].symbols # << >>

(* C5 as stated: without any snapshot every query, completion included,
   returns its "not found" value at every position. *)
C5_EveryQueryNotFound ==
  \A uri \in URIs :
    NoSnapshotHeld(m_documents[uri]) =>
      \A line \in Lines, col \in Cols :
        LET d == m_documents[uri]
        IN  /\ get_hover_info(d, line, col, Index) = {None}
            /\ get_definition_location(d, line, col, Index) = {None}
            /\ get_references(d, line, col, TRUE, Index) = {<< >>}
            /\ get_signature_help(d, line, col, Index) = {None}
            /\ get_completions(d, line, col, Index) = << >>

(* The token under the cursor and what the document's own semantic table
   resolves it to (0: nothing). *)
HasSnapshot(d) == d.open /\ sema_to_use(d) # NoInst /\ tokens_to_use(d) # NoInst
TokenAt(d, line, col) == find_token_at(d, line + 1, col + 1)
LocalDecl(d, line, col) ==
  get_declaration_of(sema_to_use(d), TokenAt(d, line, col), TRUE)
IndexedAs(name) == {sym \in Range(all_symbols(Index)) : sym.name = name}

(* C6: definition and hover resolve a token locally first and through the
   project index last: a token the document's semantic table resolves gives
   the local declaration whatever the index holds; a token it does not
   resolve, whose name is in the index, gives an index symbol of that name;
   a name in neither gives no result. *)
C6_TierOrdering ==
  \A uri \in URIs : \A line \in Lines, col \in Cols :
    LET d == m_documents[uri]
        token == TokenAt(d, line, col)
        local == LocalDecl(d, line, col)
        def == get_definition_location(d, line, col, Index)
        hover == get_hover_info(d, line, col, Index)
    IN  (HasSnapshot(d) /\ token # NoToken) =>
          IF local # 0
          THEN /\ def = {Location(uri, Decl(sema_to_use(d), local).lineno - 1,
                                  Decl(sema_to_use(d), local).colno - 1)}
               /\ def = get_definition_location(d, line, col, NoIndex)
               /\ hover = get_hover_info(d, line, col, NoIndex)
               /\ \A h \in hover : h.found
          ELSE IF IndexedAs(token.str) # {}
          THEN /\ \A loc \in def : \E sym \in IndexedAs(token.str) :
                    loc = Location(sym.file_uri, sym.line, sym.column)
               /\ \A h \in hover : \E sym \in IndexedAs(token.str) :
                    h = HoverAt(token, build_hover_content_sym(d, sym))
          ELSE def = {None} /\ hover = {None}

(* In one state: a local variable that shadows a function of the index, a
   name only the index knows, and a name nobody knows. *)
C6_Witness ==
  LET d == m_documents["main"]
  IN  /\ HasSnapshot(d)
      /\ \E line \in Lines, col \in Cols :
           /\ LocalDecl(d, line, col) # 0
           /\ is_object(Decl(sema_to_use(d), LocalDecl(d, line, col)))
           /\ \E sym \in IndexedAs(TokenAt(d, line, col).str) :
                sym.kind = "Function" /\ sym.file_uri # "main"
      /\ \E line \in Lines, col \in Cols :
           /\ TokenAt(d, line, col) # NoToken
           /\ LocalDecl(d, line, col) = 0
           /\ IndexedAs(TokenAt(d, line, col).str) # {}
      /\ \E line \in Lines, col \in Cols :
           /\ TokenAt(d, line, col) # NoToken
           /\ LocalDecl(d, line, col) = 0
           /\ IndexedAs(TokenAt(d, line, col).str) = {}

(* C7: the location handle_definition returns names the file that owns the
   declaration: the document's own URI and the declaration's position when
   the token resolves locally; otherwise the URI of a file whose index
   record holds a symbol of that name, with the line and column recorded
   there, which are those of the declaration in that file's parse. *)
C7_DefinitionNamesOwningFile ==
  \A uri \in URIs : \A line \in Lines, col \in Cols :
    \A loc \in handle_definition(uri, line, col) :
      loc.found =>
        LET d == m_documents[uri]
            token == TokenAt(d, line, col)
            local == LocalDecl(d, line, col)
        IN  IF local # 0
            THEN /\ loc.uri = uri
                 /\ loc.start = [line |-> Decl(sema_to_use(d), local).lineno - 1,
                                 character |-> Decl(sema_to_use(d), local).colno - 1]
            ELSE \E u \in URIs : \E sym \in Range(m_file_indices[u].symbols) :
                   /\ m_file_indices[u].present
                   /\ sym.name = token.str
                   /\ loc.uri = u
                   /\ loc.start = [line |-> sym.line, character |-> sym.column]
                   /\ m_documents[u].open =>
                        \E decl \in Range(DeclsOf(parser_to_use(m_documents[u]).p)) :
                          /\ decl.name = token.str /\ is_global(decl)
                          /\ decl.lineno - 1 = sym.line
                          /\ decl.colno - 1 = sym.column

(* main calls add, which only utils declares: the definition is in utils. *)
C7_Witness ==
  /\ m_documents["main"].open /\ m_documents["utils"].open
  /\ \E line \in Lines, col \in Cols :
       /\ TokenAt(m_documents["main"], line, col).str = "add"
       /\ \E loc \in handle_definition("main", line, col) :
            /\ loc.found /\ loc.uri = "utils"
            /\ loc.start = [line |-> 0, character |-> 0]

(* The accessor sequences of member access, and the characters of an
   identifier. *)
Accessors == {<<".">>, <<".", ".">>, <<"-", ">">>}
IsIdentifierChar(c) == isalnum(c) \/ c = "_"

(* The characters of the line immediately before the cursor are the
   sequence a, with an identifier directly to its left. *)
EndsWith(text, col, a) ==
  /\ col <= Len(text) /\ col > Len(a)
  /\ SubSeq(text, col - Len(a) + 1, col) = a
  /\ IsIdentifierChar(text[col - Len(a)])

(* C8: get_completions is in member-access mode exactly when the characters
   immediately before the cursor are an accessor sequence (or ':') with an
   identifier directly to its left, so that an accessor or ':' earlier on
   the line does not select it; and a member-mode result holds no
   general-mode item. *)
C8_ModeFromCharactersBeforeCursor ==
  \A uri \in URIs : \A line \in Lines, col \in Cols :
    LET d == m_documents[uri]
        text == line_text(d, line)
    IN  d.open =>
          /\ IsMemberMode(d, line, col)
               <=> \E a \in Accessors \cup {<<":">>} : EndsWith(text, col, a)
          /\ IsMemberMode(d, line, col)
               => \A item \in Range(get_completions(d, line, col, Index)) :
                    item.kind # "Keyword"

(* C9: each of the accessors '.', '..' and '->' right after an identifier
   triggers member-access mode, and after '..' and '->' the result holds no
   free function. *)
C9_EachAccessorTriggersMemberMode ==
  \A uri \in URIs : \A line \in Lines, col \in Cols :
    \A a \in Accessors :
      LET d == m_documents[uri]
          sema == completion_sema(d)
          free == {decl.name : decl \in {x \in Range(DeclsOf(sema.p)) :
                                           is_function(x) /\ is_global(x)}}
      IN  (d.open /\ EndsWith(line_text(d, line), col, a)) =>
            /\ IsMemberMode(d, line, col)
            /\ a # <<".">> =>
                 \A item \in Range(get_completions(d, line, col, Index)) :
                   item.label \notin free

(* The declaration in scope at the cursor for the identifier that ends
   right before the accessor a (0: none), in the semantic table completion
   uses. *)
ObjectDecl(d, line, col, a) ==
  LET text == line_text(d, line)
      id_end == col - Len(a) - 1
      name == SubSeq(text, IdStart(text, id_end) + 1, id_end + 1)
      sema == completion_sema(d)
      named == {k \in 1..Len(DeclsOf(sema.p)) : Spelling(Decl(sema, k).name) = name}
  IN  IF sema = NoInst \/ named = {} THEN 0
      ELSE get_declaration_of(sema,
             [lineno |-> line + 1, colno |-> IdStart(text, id_end) + 1,
              len |-> Len(name), str |-> Decl(sema, Min(named)).name,
              lex |-> "Identifier"], FALSE)

(* C10: for a type T with a member m and a global function f whose first
   parameter is of type T, completion right after 'obj.' (obj declared of
   type T) holds m and f, completion right after 'obj..' holds m and not f,
   and a global function whose first parameter is of another type is in
   neither. *)
C10_UFCSSet ==
  \A uri \in URIs : \A line \in Lines, col \in Cols :
    \A a \in {<<".">>, <<".", ".">>} :
      LET d == m_documents[uri]
          sema == completion_sema(d)
          obj == ObjectDecl(d, line, col, a)
          T == Decl(sema, obj).objtype
          types == {k \in 1..Len(DeclsOf(sema.p)) :
                      is_type(Decl(sema, k)) /\ Decl(sema, k).name = T}
          members == {decl.name : decl \in {x \in Range(DeclsOf(sema.p)) :
                                              x.parent \in types}}
          functions == {x \in Range(DeclsOf(sema.p)) :
                          is_function(x) /\ is_global(x) /\ x.param1 # ""}
          labels == {item.label :
                       item \in Range(get_completions(d, line, col, Index))}
      IN  (/\ d.open /\ EndsWith(line_text(d, line), col, a)
           /\ obj # 0 /\ is_object(Decl(sema, obj)) /\ types # {})
          => /\ members \subseteq labels
             /\ \A f \in functions :
                  f.name \in labels <=> (a = <<".">> /\ f.param1 = T)

(* The columns of a line at which get_completions is in general mode, and
   the visible declarations of the snapshot completion uses, in table order. *)
GeneralCols(d, line) == {col \in Cols : ~IsMemberMode(d, line, col)}
VisibleSyms(d, line) ==
  LET sema == completion_sema(d)
  IN  IF sema = NoInst THEN << >>
      ELSE SelectSeq(StartDecls(sema),
             LAMBDA sym :
               /\ Decl(sema, sym.decl).name # ""
               /\ is_visible(sema, sym, line + 1,
                             containing_function_at(sema, line + 1)))
Labels(items) == {items[k].label : k \in 1..Len(items)}

(* C11: a general-mode result is, in this order, the visible declarations,
   then the index symbols whose name has not appeared, then the keywords
   whose name has not appeared; no two items share a label, and of several
   writers of a name the first one wins. *)
C11_GeneralModeOrder ==
  \A uri \in URIs : \A line \in Lines :
    LET d == m_documents[uri]
        sema == completion_sema(d)
        result == get_completions(d, line, Min(GeneralCols(d, line)), Index)
        label == [i \in 1..Len(result) |-> result[i].label]
        vis == VisibleSyms(d, line)
        visNames == {Decl(sema, vis[k].decl).name : k \in 1..Len(vis)}
        firstVis == SelectSeq(vis, LAMBDA sym :
                      sym = vis[Min({k \in 1..Len(vis) :
                                      Decl(sema, vis[k].decl).name
                                        = Decl(sema, sym.decl).name})])
        idxItems == {IndexItem(sym) : sym \in Range(all_symbols(Index))}
        idxNames == {item.label : item \in idxItems} \ visNames
        kws == SelectSeq(keywords, LAMBDA kw : kw[1] \notin visNames \cup idxNames)
        a == Len(firstVis)
        b == a + Cardinality(idxNames)
    IN  (d.open /\ GeneralCols(d, line) # {}) =>
          /\ Len(result) = b + Len(kws)
          /\ Cardinality(Range(label)) = Len(result)
          /\ \A i \in 1..a : result[i] = SymbolItem(sema, firstVis[i])
          /\ \A i \in (a + 1)..b :
               result[i].label \in idxNames /\ result[i] \in idxItems
          /\ \A i \in (b + 1)..Len(result) :
               /\ result[i].label = kws[i - b][1]
               /\ result[i].kind = "Keyword"

(* A cursor at which the document shows declarations of its own, the index
   knows some of them too, and the index adds names of another file. *)
C11_Witness ==
  \E line \in Lines :
    LET d == m_documents["main"]
        sema == completion_sema(d)
        vis == VisibleSyms(d, line)
        visNames == {Decl(sema, vis[k].decl).name : k \in 1..Len(vis)}
        idxNames == {sym.name : sym \in Range(all_symbols(Index))}
    IN  /\ d.open /\ GeneralCols(d, line) # {}
        /\ visNames # {}
        /\ visNames \cap idxNames # {}
        /\ idxNames \ visNames # {}
        /\ Len(get_completions(d, line, Min(GeneralCols(d, line)), Index))
             > Len(vis)

(* The functions with a body in braces whose lines hold the line, and the
   innermost of them. *)
EnclosingFunctions(sema, line) ==
  {k \in 1..Len(DeclsOf(sema.p)) :
     /\ is_function(Decl(sema, k)) /\ Decl(sema, k).endline > 0
     /\ Decl(sema, k).lineno <= line + 1 /\ line + 1 <= Decl(sema, k).endline}
Innermost(sema, fs) ==
  CHOOSE f \in fs : \A g \in fs : Decl(sema, g).lineno <= Decl(sema, f).lineno

(* C12: in general mode a variable or parameter is listed only if it is
   declared at or before the cursor line and belongs to the innermost
   function that encloses the cursor; a variable of another function is
   never listed. *)
C12_VariablesOfEnclosingFunction ==
  \A uri \in URIs : \A line \in Lines :
    LET d == m_documents[uri]
        sema == completion_sema(d)
        result == get_completions(d, line, Min(GeneralCols(d, line)), Index)
        enclosing == EnclosingFunctions(sema, line)
    IN  (d.open /\ sema # NoInst /\ GeneralCols(d, line) # {}) =>
          \A item \in Range(result) :
            item.kind \in {"Variable", "Parameter"} =>
              \E sym \in Range(StartDecls(sema)) :
                /\ is_object(Decl(sema, sym.decl))
                /\ SymbolItem(sema, sym) = item
                /\ sym.lineno <= line + 1
                /\ enclosing # {} =>
                     HasAncestor(sema, Decl(sema, sym.decl).parent,
                                 Innermost(sema, enclosing))

(* C13: in general mode every named global function, type and namespace of
   the snapshot in use is listed whatever its line, also when it is declared
   after the cursor; it is listed as what it is unless an earlier visible
   declaration has its name. *)
C13_GlobalsAlwaysVisible ==
  \A uri \in URIs : \A line \in Lines :
    LET d == m_documents[uri]
        sema == completion_sema(d)
        result == get_completions(d, line, Min(GeneralCols(d, line)), Index)
        vis == VisibleSyms(d, line)
    IN  (d.open /\ sema # NoInst /\ GeneralCols(d, line) # {}) =>
          \A sym \in Range(StartDecls(sema)) :
            LET decl == Decl(sema, sym.decl)
            IN  (/\ is_function(decl) \/ is_type(decl) \/ is_namespace(decl)
                 /\ is_global(decl) /\ decl.name # "")
                => /\ decl.name \in Labels(result)
                   /\ (\A k \in 1..Len(vis) :
                         Decl(sema, vis[k].decl).name = decl.name
                           => vis[k].decl = sym.decl)
                      => SymbolItem(sema, sym) \in Range(result)

(* A cursor above a global function that only the document's snapshot
   knows (the index does not hold it): a forward reference. *)
C13_Witness ==
  \E line \in Lines :
    LET d == m_documents["main"]
        sema == completion_sema(d)
    IN  /\ d.open /\ sema # NoInst /\ GeneralCols(d, line) # {}
        /\ \E sym \in Range(StartDecls(sema)) :
             /\ is_function(Decl(sema, sym.decl)) /\ is_global(Decl(sema, sym.decl))
             /\ sym.lineno > line + 1
             /\ IndexedAs(Decl(sema, sym.decl).name) = {}
             /\ Decl(sema, sym.decl).name
                  \in Labels(get_completions(d, line, Min(GeneralCols(d, line)), Index))

(* The locations of the tokens the front end's map resolves to declaration
   D of the document's semantic table, and the declaration site of D. *)
MappedTo(d, D) ==
  {Location(d.m_uri, e.lineno - 1, e.colno - 1) :
     e \in {x \in DeclarationOfMap(sema_to_use(d).p) : x.decl = D}}
DeclarationSite(d, D) ==
  Location(d.m_uri, Decl(sema_to_use(d), D).lineno - 1,
           Decl(sema_to_use(d), D).colno - 1)

(* C14: get_references at a token resolved to declaration D returns
   locations of this file only, each the location of a token resolved to D
   itself (or the declaration site); every use resolved to D is among them,
   and no token resolved to another declaration is, whatever its name. *)
C14_ReferencesByIdentity ==
  \A uri \in URIs : \A line \in Lines, col \in Cols :
    \A include_declaration \in BOOLEAN :
      LET d == m_documents[uri]
          D == LocalDecl(d, line, col)
      IN  (HasSnapshot(d) /\ D # 0) =>
            \A r \in get_references(d, line, col, include_declaration, Index) :
              /\ \A loc \in Range(r) :
                   /\ loc.uri = uri
                   /\ \/ loc \in MappedTo(d, D)
                      \/ include_declaration /\ loc = DeclarationSite(d, D)
              /\ MappedTo(d, D) \ {DeclarationSite(d, D)} \subseteq Range(r)
              /\ \A e \in DeclarationOfMap(sema_to_use(d).p) :
                   e.decl # D =>
                     Location(uri, e.lineno - 1, e.colno - 1) \notin Range(r)

(* References of a variable that has a use, in a file where another
   declaration has the same name. *)
C14_Witness ==
  \E line \in Lines, col \in Cols :
    LET d == m_documents["main"]
        D == LocalDecl(d, line, col)
    IN  /\ HasSnapshot(d) /\ D # 0
        /\ MappedTo(d, D) \ {DeclarationSite(d, D)} # {}
        /\ \E e \in DeclarationOfMap(sema_to_use(d).p) :
             e.decl # D /\ e.str = Decl(sema_to_use(d), D).name
        /\ \E r \in get_references(d, line, col, FALSE, Index) : r # << >>

(* C15: for a locally resolved declaration, get_references with
   include_declaration holds the declaration site exactly once, and without
   it does not hold the declaration site. *)
C15_DeclarationSiteOnRequest ==
  \A uri \in URIs : \A line \in Lines, col \in Cols :
    LET d == m_documents[uri]
        D == LocalDecl(d, line, col)
    IN  (HasSnapshot(d) /\ D # 0) =>
          /\ \A r \in get_references(d, line, col, TRUE, Index) :
               Cardinality({k \in 1..Len(r) : r[k] = DeclarationSite(d, D)}) = 1
          /\ \A r \in get_references(d, line, col, FALSE, Index) :
               DeclarationSite(d, D) \notin Range(r)

(* The locations the index holds for a name. *)
IndexLocations(name) ==
  {Location(sym.file_uri, sym.line, sym.column) : sym \in IndexedAs(name)}

(* C16, as the code has it: for a token that is not resolved locally,
   get_references with include_declaration returns one location, that of an
   index symbol of the name (with the URI of its file), or the empty list
   when the index has no symbol of the name; without include_declaration it
   returns the empty list, whatever the index holds. *)
C16_IndexFallback ==
  \A uri \in URIs : \A line \in Lines, col \in Cols :
    LET d == m_documents[uri]
        token == TokenAt(d, line, col)
    IN  (HasSnapshot(d) /\ token # NoToken /\ LocalDecl(d, line, col) = 0) =>
          /\ \A r \in get_references(d, line, col, TRUE, Index) :
               IF IndexedAs(token.str) = {} THEN r = << >>
               ELSE Len(r) = 1 /\ r[1] \in IndexLocations(token.str)
          /\ get_references(d, line, col, FALSE, Index) = {<< >>}

(* main's call of add, which only utils declares: with the declaration
   asked for the result is add's location in utils, without it nothing. *)
C16_Witness ==
  \E line \in Lines, col \in Cols :
    LET d == m_documents["main"]
    IN  /\ HasSnapshot(d) /\ TokenAt(d, line, col).str = "add"
        /\ LocalDecl(d, line, col) = 0
        /\ get_references(d, line, col, TRUE, Index)
             = {<<Location("utils", 0, 0)>>}
        /\ get_references(d, line, col, FALSE, Index) = {<< >>}

(* C16 as stated: for a token that is not resolved locally get_references
   returns the one declaration location of the index, and the empty list
   only when the index has no symbol of the name. *)
C16_SingleIndexLocation ==
  \A uri \in URIs : \A line \in Lines, col \in Cols :
    \A include_declaration \in BOOLEAN :
      LET d == m_documents[uri]
          token == TokenAt(d, line, col)
      IN  (HasSnapshot(d) /\ token # NoToken /\ LocalDecl(d, line, col) = 0) =>
            \A r \in get_references(d, line, col, include_declaration, Index) :
              IF IndexedAs(token.str) = {} THEN r = << >>
              ELSE Len(r) = 1 /\ r[1] \in IndexLocations(token.str)

(* The "(" tokens before the cursor that no ")" before the cursor closes. *)
UnmatchedParens(toks) ==
  {j \in 1..Len(toks) :
     /\ toks[j].str = "("
     /\ \A k \in j..Len(toks) : ParenDepth(toks, k) >= ParenDepth(toks, j)}

(* C17: get_signature_help returns a result only when an unmatched "(" lies
   before the cursor, and when the identifier right before the nearest
   unmatched "(" names a function of the snapshot, the result is the
   signature of that function, also when the call is nested in another
   call that is still open. *)
C17_CalleeOfNearestUnmatchedParen ==
  \A uri \in URIs : \A line \in Lines, col \in Cols :
    LET d == m_documents[uri]
        sema == completion_sema(d)
        toks == ScannedTokens(get_map(tokens_to_use(d)), line + 1, col + 1)
        unmatched == UnmatchedParens(toks)
        nearest == Max(unmatched)
        help == get_signature_help(d, line, col, Index)
    IN  (d.open /\ sema # NoInst /\ tokens_to_use(d) # NoInst) =>
          /\ unmatched = {} => help = {None}
          /\ (unmatched # {} /\ nearest > 1) =>
               \A decl \in Range(DeclsOf(sema.p)) :
                 (/\ toks[nearest - 1].lex = "Identifier"
                  /\ is_function(decl) /\ is_global(decl)
                  /\ decl.name = toks[nearest - 1].str)
                 => help = {SignatureHelp(decl.sig, 0)}
                    \/ \E r \in help : r.found /\ r.label = decl.sig
                                       /\ r.active_parameter > 0

(* ----------------------------------------------------------------------- *)
(* ProjectIndex: update_file, scan_and_index, load_from_cache               *)
(* ----------------------------------------------------------------------- *)

(* &m_index after the step *)
IndexAfter == [m_file_indices |-> m_file_indices', m_symbol_map |-> m_symbol_map']
NamesOf(symbols) == {symbols[k].name : k \in 1..Len(symbols)}

(* C18: update_file(uri, symbols) replaces uri's record in full: afterwards
   the record holds exactly the given symbols, each with file_uri = uri;
   what lookup and all_symbols return for uri are symbols of the new record
   and none of the previous one; every other file's record is unchanged; and
   a call repeated with identical input leaves the records (mtime aside) and
   every lookup result as they were. *)
C18_UpdateFileReplaces ==
  [][(last'.op = "update_file" /\ \E u \in URIs : UpdateFile(u)) =>
       LET uri == last'.uri
           symbols == SymbolInput(uri, last'.arg)
           record == m_file_indices'[uri]
           names == NamesOf(symbols) \cup NamesOf(m_file_indices[uri].symbols)
           repeated == update_file(m_file_indices', uri, symbols, now')
       IN  /\ record.present
           /\ Len(record.symbols) = Len(symbols)
           /\ \A k \in 1..Len(symbols) :
                record.symbols[k] = [symbols[k] EXCEPT !.file_uri = uri]
           /\ \A other \in URIs \ {uri} :
                m_file_indices'[other] = m_file_indices[other]
           /\ \A name \in names :
                {sym \in lookup(IndexAfter, name) : sym.file_uri = uri}
                  = {sym \in Range(record.symbols) : sym.name = name}
           /\ {sym \in Range(all_symbols(IndexAfter)) : sym.file_uri = uri}
                = Range(record.symbols)
           /\ \A u \in URIs :
                /\ repeated[u].present = m_file_indices'[u].present
                /\ repeated[u].symbols = m_file_indices'[u].symbols
           /\ RebuildSymbolMap(repeated) = m_symbol_map'
           /\ last'.again =>
                /\ \A u \in URIs : m_file_indices'[u].symbols = m_file_indices[u].symbols
                /\ m_symbol_map' = m_symbol_map
                /\ \A name \in names :
                     lookup(IndexAfter, name) = lookup(Index, name)]_vars

(* update_file ran twice on main with the same symbols, and utils has its
   record. *)
C18_Witness ==
  /\ last.op = "update_file" /\ last.uri = "main" /\ last.again
  /\ SymbolInput("main", last.arg) # << >>
  /\ m_file_indices["utils"].present /\ m_file_indices["utils"].symbols # << >>

(* The workspace files scan_and_index lists and can open *)
Readable == {uri \in find_cpp2_files : disk[uri].readable}
(* The files whose record the step created or replaced *)
Reindexed == {uri \in URIs : m_file_indices'[uri] # m_file_indices[uri]}

(* C19: with a workspace root set, scan_and_index re-indexes a workspace file
   exactly when the file has no record or its modification time on disk is
   strictly newer than the recorded one (the new record is index_file's, with
   the file's modification time); it returns true exactly when some record
   was created or replaced; and a scan right after a scan, with no change on
   disk in between, returns false and changes no record. *)
C19_ScanReindexesNewer ==
  [][(ScanAndIndex /\ m_workspace_root # "") =>
       /\ \A uri \in Readable :
            (~m_file_indices[uri].present
               \/ disk[uri].mtime > m_file_indices[uri].mtime)
            <=> uri \in Reindexed
       /\ \A uri \in Reindexed :
            /\ uri \in Readable
            /\ m_file_indices'[uri] \in index_file(uri)
            /\ m_file_indices'[uri].mtime = disk[uri].mtime
       /\ last'.ret <=> Reindexed # {}
       /\ last'.again => (~last'.ret /\ Reindexed = {}
                          /\ m_symbol_map' = m_symbol_map)]_vars

(* A scan returned false right after a scan that indexed both files; the
   records carry the files' modification times, one older than the other. *)
C19_Witness ==
  /\ last.op = "scan_and_index" /\ last.again /\ ~last.ret
  /\ m_workspace_root # ""
  /\ \A uri \in URIs : /\ disk[uri].readable /\ m_file_indices[uri].present
                       /\ m_file_indices[uri].mtime = disk[uri].mtime
  /\ disk["main"].mtime > disk["utils"].mtime

(* The cache file is there and was written by another version. *)
ForeignCache == cache_file.exists /\ cache_file.version # kIndexVersion

(* C20: load_from_cache on a cache file of a foreign version returns false
   and leaves the file records, the name map and the dirty flag as they
   were; handle_initialize on such a cache then scans the whole workspace:
   afterwards every workspace file has the record index_file gives for it,
   no other file has a record, and the name map is that of these records. *)
C20_ForeignCacheLoadsNothing ==
  [][/\ (last'.op = "load_from_cache" /\ LoadFromCache /\ ForeignCache) =>
          /\ ~last'.ret
          /\ m_file_indices' = m_file_indices
          /\ m_symbol_map' = m_symbol_map
          /\ m_dirty' = m_dirty
     /\ (last'.op = "initialize" /\ handle_initialize /\ ForeignCache) =>
          /\ ~last'.ret
          /\ last'.scanned = (find_cpp2_files # {})
          /\ \A uri \in find_cpp2_files : m_file_indices'[uri] \in index_file(uri)
          /\ \A uri \in URIs \ find_cpp2_files : ~m_file_indices'[uri].present
          /\ m_symbol_map' = RebuildSymbolMap(m_file_indices')
          /\ \A sym \in Range(all_symbols(IndexAfter)) : sym.name # "old"]_vars

(* handle_initialize met a cache of a foreign version with both files in the
   workspace: the load failed and the scan indexed them. *)
C20_Witness ==
  /\ last.op = "initialize" /\ last.arg = <<ForeignVersion>>
  /\ ~last.ret /\ last.scanned
  /\ \A uri \in URIs : m_file_indices[uri].present /\ m_file_indices[uri].symbols # << >>
(* ----------------------------------------------------------------------- *)
(* The cache round trip                                                     *)
(* ----------------------------------------------------------------------- *)

(* What the round trip is compared by: name, kind and position *)
ByNameKindPosition(syms) == {<<sym.name, sym.kind, sym.line, sym.column>> : sym \in syms}
MappedNames(index) == {e.name : e \in index.m_symbol_map}
Destroyed(index, name) == \E e \in index.m_symbol_map : e.name = name /\ e.i = 0
SymbolsNamed(index, name) == {sym \in Range(all_symbols(index)) : sym.name = name}
RecordNames(index) == {sym.name : sym \in Range(all_symbols(index))}
(* lookup(name) of after equals lookup(name) of before; a lookup that reads a
   destroyed symbol may return anything, so it equals nothing. *)
SameLookups(before, after) ==
  \A name \in MappedNames(before) \cup MappedNames(after) :
    /\ ~Destroyed(before, name) /\ ~Destroyed(after, name)
    /\ ByNameKindPosition(lookup(after, name)) = ByNameKindPosition(lookup(before, name))
(* lookup(name) of after equals the symbols of that name in the records of
   before. *)
LookupsOfRecords(before, after) ==
  \A name \in RecordNames(before) \cup MappedNames(after) :
    /\ ~Destroyed(after, name)
    /\ ByNameKindPosition(lookup(after, name)) =
         ByNameKindPosition(SymbolsNamed(before, name))

(* load_from_cache runs right after a save_to_cache that returned true. *)
LoadAfterSave ==
  /\ last.op = "save_to_cache" /\ last.ret
  /\ last'.op = "load_from_cache"
  /\ LoadFromCache

(* C21 as stated: from every index state, save_to_cache followed by
   load_from_cache leaves every lookup(name) set-equal by (name, kind, line,
   column) to lookup(name) before saving. *)
C21_RoundTripFromEveryState ==
  [][LoadAfterSave => SameLookups(Index, IndexAfter)]_vars

(* The same for a dirty index only: it fails where the name map does not
   match the records before the save. *)
C21_RoundTripOfLookups ==
  [][(LoadAfterSave /\ m_dirty) => SameLookups(Index, IndexAfter)]_vars

(* C21, amended: when the index is dirty and save_to_cache returns true (it
   wrote the file), load_from_cache after it returns true and leaves every
   lookup(name) set-equal by (name, kind, line, column) to the symbols of
   that name in the file records before saving. *)
C21_RoundTripOfDirtyIndex ==
  [][(LoadAfterSave /\ m_dirty) =>
       /\ last'.ret
       /\ ~m_dirty'
       /\ LookupsOfRecords(Index, IndexAfter)]_vars

(* A dirty index with the records of both files was saved and loaded again. *)
C21_Witness ==
  /\ last.op = "load_from_cache" /\ last.ret /\ last.again
  /\ \A uri \in URIs : m_file_indices[uri].present /\ m_file_indices[uri].symbols # << >>
(* ----------------------------------------------------------------------- *)
(* The life of a file's record                                              *)
(* ----------------------------------------------------------------------- *)

(* Neither lookup nor all_symbols of index returns a symbol of uri. *)
NoSymbolOf(index, uri) ==
  /\ \A name \in MappedNames(index) :
       \A sym \in lookup(index, name) : sym.file_uri # uri
  /\ \A sym \in Range(all_symbols(index)) : sym.file_uri # uri

(* C22, closing: after didClose of a file the index holds no record of it,
   and lookup and all_symbols return none of its symbols. *)
C22_RecordRemovedOnClose ==
  [][(last'.op = "didClose" /\ \E uri \in URIs : handle_did_close(uri)) =>
       /\ ~m_file_indices'[last'.uri].present
       /\ NoSymbolOf(IndexAfter, last'.uri)]_vars

(* C22, deletion: after a scan that does not find a file in the workspace
   the index holds no record of it, and lookup and all_symbols return none of
   its symbols. *)
C22_RecordRemovedOnDeletion ==
  [][(last'.op = "scan_and_index" /\ ScanAndIndex /\ m_workspace_root # "") =>
       \A uri \in URIs \ find_cpp2_files :
         /\ ~m_file_indices'[uri].present
         /\ NoSymbolOf(IndexAfter, uri)]_vars
(* ----------------------------------------------------------------------- *)
(* update called twice, and diagnostics                                     *)
(* ----------------------------------------------------------------------- *)

(* The step is a didChange that repeats the update call that ran just before
   on the same document: the same content, the temporary file and the front
   end behaving as they did. *)
UpdateRepeated ==
  /\ last'.op = "didChange"
  /\ \E uri \in URIs : handle_did_change(uri)
  /\ last.op \in {"didOpen", "didChange"}
  /\ last.uri = last'.uri /\ last.text = last'.text
  /\ last.env = last'.env /\ last.v = last'.v /\ last.stage = last'.stage

(* C23: update(x) called twice in a row with the same text x, from any prior
   state of the document: diagnostics() and get_indexed_symbols() after the
   second call are those after the first. *)
C23_UpdateIdempotent ==
  [][UpdateRepeated =>
       /\ diagnostics(m_documents'[last'.uri]) = diagnostics(m_documents[last'.uri])
       /\ get_indexed_symbols(m_documents'[last'.uri])
            = get_indexed_symbols(m_documents[last'.uri])]_vars

(* The broken text S was sent twice to a document holding the snapshot of an
   earlier clean text: both calls left the same two diagnostics and
   symbols. *)
C23_Witness ==
  /\ last.op = "didChange" /\ last.text = "S"
  /\ last.pre.m_content = "S" /\ last.pre.m_cached_sema # NoInst
  /\ last.pre.m_cached_sema.p[1] # "S"
  /\ diagnostics(m_documents[last.uri]) = diagnostics(last.pre)
  /\ diagnostics(last.pre) # << >>
  /\ get_indexed_symbols(m_documents[last.uri]) # << >>

(* The errors of one update that are not marked as fallback, in order, and
   what the claim has reported for one: the message and the flag as they
   are, the 1-based position minus one. *)
Specific(errs) == SelectSeq(errs, LAMBDA error : ~error.fallback)
Reported(error) ==
  [line |-> error.lineno - 1, column |-> error.colno - 1,
   message |-> error.msg, is_internal |-> error.internal]

(* C24: when an update left a non-fallback error, diagnostics() reports no
   fallback error, and it reports every non-fallback error, in order, with
   its message and its position converted to 0-based. *)
C24_FallbackSuppressed ==
  \A uri \in URIs :
    LET d == m_documents[uri]
        specific == Specific(d.m_errors)
    IN  (d.open /\ specific # << >>) =>
          diagnostics(d) = [k \in 1..Len(specific) |-> Reported(specific[k])]

(* An update left a specific error followed by a fallback error: one
   diagnostic is reported. *)
C24_Witness ==
  \E uri \in URIs :
    LET d == m_documents[uri]
    IN  /\ d.open /\ Len(d.m_errors) = 2
        /\ ~d.m_errors[1].fallback /\ d.m_errors[2].fallback
        /\ Len(diagnostics(d)) = 1
(* ----------------------------------------------------------------------- *)
(* The dirty flag                                                           *)
(* ----------------------------------------------------------------------- *)

ThisIndexAfter ==
  [m_file_indices |-> m_file_indices', m_symbol_map |-> m_symbol_map',
   m_dirty |-> m_dirty']
(* The step is a call of the index method op: every step of CacheNext
   records itself in last. *)
Called(op) == last'.op = op

(* C25: is_dirty() is true after update_file, remove_file, mark_dirty and a
   scan_and_index that re-indexed a file; it is false after save_to_cache
   and after load_from_cache when they return true; and save_to_cache leaves
   the cache file as it is when the index is not dirty. *)
C25_DirtyMeansUnsaved ==
  [][/\ (Called("update_file") \/ Called("remove_file") \/ Called("mark_dirty"))
          => is_dirty(ThisIndexAfter)
     /\ (Called("scan_and_index") /\ last'.ret) => is_dirty(ThisIndexAfter)
     /\ (Called("load_from_cache") /\ last'.ret) => ~is_dirty(ThisIndexAfter)
     /\ (Called("save_to_cache") /\ last'.ret) => ~is_dirty(ThisIndexAfter)
     /\ (Called("save_to_cache") /\ ~is_dirty(ThisIndex)) => cache_file' = cache_file]_vars
(* ----------------------------------------------------------------------- *)
(* Positions at the boundary                                                *)
(* ----------------------------------------------------------------------- *)

(* The adapter's tokens of the snapshot the queries use, and those whose
   span contains the 1-based point of the 0-based (line, col). *)
AdapterTokens(d) == Range(AllTokens(get_map(tokens_to_use(d))))
SpanTokens(d, line, col) ==
  {t \in AdapterTokens(d) :
     t.lineno = line + 1 /\ t.colno <= col + 1 /\ col + 1 < t.colno + t.len}
(* The 0-based loc is where a token spelled str starts, among the adapter's
   tokens of the parse that resolved it (the one sema_to_use belongs to). *)
StartsToken(d, loc, str) ==
  \E t \in Range(TokensOf(sema_to_use(d).p)) :
    t.lineno - 1 = loc.line /\ t.colno - 1 = loc.column /\ t.str = str

(* C26: a query at the 0-based (line, col) answers for the token whose span
   contains the 1-based point (line + 1, col + 1), and for no token gives no
   result; the hover range is [colno - 1, colno - 1 + length) on line; for
   a token resolved locally, the definition and every reference are in this
   file at a token's 1-based position minus one, the token spelled as the one
   selected. *)
C26_PositionsConverted ==
  \A uri \in URIs : \A line \in Lines, col \in Cols :
    LET d == m_documents[uri]
        span == SpanTokens(d, line, col)
    IN  HasSnapshot(d) =>
          /\ span = {} =>
               /\ get_hover_info(d, line, col, Index) = {None}
               /\ get_definition_location(d, line, col, Index) = {None}
               /\ \A incl \in BOOLEAN : get_references(d, line, col, incl, Index) = {<< >>}
          /\ \A h \in get_hover_info(d, line, col, Index) :
               h.found =>
                 \E t \in span :
                   /\ h.start_line = line /\ h.end_line = line
                   /\ h.start_col = t.colno - 1
                   /\ h.end_col = t.colno - 1 + t.len
                   /\ h.start_col <= col /\ col < h.end_col
          /\ (span # {} /\ LocalDecl(d, line, col) # 0) =>
               \A t \in span :
                 /\ \A loc \in get_definition_location(d, line, col, Index) :
                      loc.found /\ loc.uri = uri /\ StartsToken(d, loc, t.str)
                 /\ \A incl \in BOOLEAN :
                      \A refs \in get_references(d, line, col, incl, Index) :
                        \A k \in 1..Len(refs) :
                          refs[k].uri = uri /\ StartsToken(d, refs[k], t.str)

(* A hover inside a token of several characters found its range, and a query
   on a use of a local variable found the declaration on another line. *)
C26_Witness ==
  LET d == m_documents["main"]
  IN  /\ HasSnapshot(d)
      /\ \E line \in Lines, col \in Cols :
           /\ TokenAt(d, line, col).len > 1
           /\ TokenAt(d, line, col).colno < col + 1
           /\ \E h \in get_hover_info(d, line, col, Index) : h.found
      /\ \E line \in Lines, col \in Cols :
           /\ LocalDecl(d, line, col) # 0
           /\ \E loc \in get_definition_location(d, line, col, Index) :
                loc.found /\ loc.line # line
           /\ \E refs \in get_references(d, line, col, TRUE, Index) : Len(refs) > 1
(* ----------------------------------------------------------------------- *)
(* Member access without an object                                          *)
(* ----------------------------------------------------------------------- *)

(* In the snapshot completion uses: the identifier tokens spelled name before
   the 0-based cursor, and the object declarations named name whose type is
   a type declared in the file. *)
ObjectTokens(d, name, line, col) ==
  IF completion_tokens(d) = NoInst THEN {}
  ELSE {t \in Range(TokensOf(completion_tokens(d).p)) :
          /\ t.lex = "Identifier" /\ Spelling(t.str) = name
          /\ (t.lineno < line + 1 \/ (t.lineno = line + 1 /\ t.colno < col + 1))}
TypedObjects(d, name) ==
  IF completion_sema(d) = NoInst THEN {}
  ELSE LET decls == Range(DeclsOf(completion_sema(d).p))
       IN  {obj \in decls :
              /\ is_object(obj) /\ Spelling(obj.name) = name
              /\ \E type \in decls : is_type(type) /\ type.name = obj.objtype}

(* C27: in member-access mode, when no identifier token of the object's name
   precedes the cursor, or the file declares no object of that name whose
   type it declares, get_completions returns the empty list; and no list
   returned in this mode holds a keyword. *)
C27_MemberModeNeverFallsBack ==
  \A uri \in URIs : \A line \in Lines, col \in Cols :
    LET d == m_documents[uri]
        name == MemberAccess(line_text(d, line), col).object_name
        items == get_completions(d, line, col, Index)
    IN  (d.open /\ IsMemberMode(d, line, col)) =>
          /\ (ObjectTokens(d, name, line, col) = {} \/ TypedObjects(d, name) = {})
               => items = << >>
          /\ \A k \in 1..Len(items) : items[k].kind # "Keyword"

(* The cursor is right after an accessor whose identifier names no object
   (a function or a type): the list is empty although the general mode has
   items for this line. *)
C27_Witness ==
  \E line \in Lines, col \in Cols :
    LET d == m_documents["main"]
        name == MemberAccess(line_text(d, line), col).object_name
    IN  /\ d.open /\ IsMemberMode(d, line, col)
        /\ completion_sema(d) # NoInst
        /\ ObjectTokens(d, name, line, col) # {}
        /\ TypedObjects(d, name) = {}
        /\ get_completions(d, line, col, Index) = << >>
        /\ general_completions(d, line, Index) # << >>
(* ----------------------------------------------------------------------- *)
(* Cascading re-diagnosis and the inverse map                                *)
(* ----------------------------------------------------------------------- *)

(* The files other than file that include it directly. *)
DirectIncluders(file) ==
  {other \in GraphFiles \ {file} : file \in m_dependencies[other]}

(* C28: when a file changes, the files flagged for re-diagnosis are exactly
   the other files that include it directly: a file that does not include it
   is not flagged, also when it includes a file that does (two hops). *)
C28_OneHopFlagged ==
  flagged.file # NoPath => flagged.files = DirectIncluders(flagged.file)

(* a.h2 changed while sub/b.h2 includes it and sub/c.cpp2 includes sub/b.h2
   only: sub/b.h2 is flagged and sub/c.cpp2 is not. *)
C28_Witness ==
  /\ flagged.file = "a.h2"
  /\ "a.h2" \in m_dependencies["sub/b.h2"]
  /\ m_dependencies["sub/c.cpp2"] = {"sub/b.h2"}
  /\ flagged.files = {"sub/b.h2"}

(* C29: after every update of a file's include set, reverse is the exact
   inverse of forward: B is in reverse[A] if and only if A is in forward[B]. *)
C29_ReverseIsInverse ==
  \A A \in GraphFiles, B \in GraphFiles :
    B \in m_reverse_dependencies[A] <=> A \in m_dependencies[B]

(* The last update removed every include of sub/c.cpp2 while a.h2 and
   sub/b.h2 include each other and a.h2 includes itself; nothing of
   sub/c.cpp2 is left in reverse. *)
C29_Witness ==
  /\ flagged.file = "sub/c.cpp2"
  /\ m_dependencies["sub/c.cpp2"] = {}
  /\ m_dependencies["a.h2"] = {"a.h2", "sub/b.h2"}
  /\ "a.h2" \in m_dependencies["sub/b.h2"]
  /\ m_reverse_dependencies["a.h2"] = {"a.h2", "sub/b.h2"}
  /\ \A file \in GraphFiles : "sub/c.cpp2" \notin m_reverse_dependencies[file]
(* ----------------------------------------------------------------------- *)
(* The name map and the file records                                         *)
(* ----------------------------------------------------------------------- *)

(* C30: after every ProjectIndex operation, successful or not, the name map
   holds one entry for each symbol of the current file records and nothing
   else: it is the map rebuilt from the records. *)
C30_NameMapOfRecords ==
  m_symbol_map = RebuildSymbolMap(m_file_indices)

(* The operations other than a load_from_cache that returns false keep this:
   update_file, remove_file, scan_and_index, initialize's scan, and a load
   that returns true. *)
C30_NameMapUnlessLoadFailed ==
  [][(C30_NameMapOfRecords /\ ~(last'.op \in {"load_from_cache", "initialize"} /\ ~last'.ret))
       => C30_NameMapOfRecords']_vars
(* ----------------------------------------------------------------------- *)
(* Snapshots consulted together                                             *)
(* ----------------------------------------------------------------------- *)

(* The <<tokens, sema>> pairs a position query reads: hover, definition and
   references (document.cpp 150-152, 209-211, 257-259), signature help
   (871-877 with 897-898) and member completion (420-430). *)
ConsultedPairs(d) ==
  {<<tokens_to_use(d), sema_to_use(d)>>,
   <<tokens_to_use(d), completion_sema(d)>>,
   <<completion_tokens(d), completion_sema(d)>>}
SameSnapshot(pair) ==
  (pair[1] # NoInst /\ pair[2] # NoInst) => pair[1].addr = pair[2].addr

(* C31: in every position query (hover, definition, references, signature
   help, member completion) the tokens and the semantic table consulted
   together are of the same snapshot, both of the current parse or both of
   the last good one, in every state reachable by updates, those that ended
   with diagnostics or an exception part-way included. *)
C31_SameSnapshotConsulted ==
  \A uri \in URIs : \A pair \in ConsultedPairs(m_documents[uri]) : SameSnapshot(pair)

(* What holds: member completion alone switches tokens and sema together. *)
C31_MemberCompletionMatches ==
  \A uri \in URIs :
    SameSnapshot(<<completion_tokens(m_documents[uri]), completion_sema(m_documents[uri])>>)

(* ----------------------------------------------------------------------- *)
(* The index under a broken edit                                            *)
(* ----------------------------------------------------------------------- *)

(* The step is a didChange of uri whose update left the document broken. *)
BrokenChange(uri) ==
  /\ last'.op = "didChange" /\ last'.uri = uri
  /\ ~m_documents'[uri].m_valid

(* C32: a didChange that leaves an open document broken (its update ended
   with diagnostics or an exception) does not change the symbols the index
   holds for that file, nor what lookup finds under their names. *)
C32_BrokenChangeKeepsIndexSymbols ==
  [][\A uri \in URIs :
       BrokenChange(uri) =>
         /\ m_file_indices'[uri].symbols = m_file_indices[uri].symbols
         /\ \A k \in 1..Len(m_file_indices[uri].symbols) :
              lookup(ThisIndexAfter, m_file_indices[uri].symbols[k].name)
                = lookup(ThisIndex, m_file_indices[uri].symbols[k].name)]_vars

(* ----------------------------------------------------------------------- *)
(* The enclosing function of general completion                             *)
(* ----------------------------------------------------------------------- *)

(* The function declarations whose span, from the start line to the line of
   the closing brace or unbounded, contains the 1-based target line; and
   those of them of greatest depth and, among these, of latest start line. *)
SpanContains(sema, target_line) ==
  {fs \in Range(function_scopes(sema)) :
     /\ fs.lineno <= target_line
     /\ (Decl(sema, fs.decl).endline = 0 \/ target_line <= Decl(sema, fs.decl).endline)}
InnermostOf(scopes) ==
  {fs.decl : fs \in {gs \in scopes :
     \A other \in scopes :
       \/ other.depth < gs.depth
       \/ (other.depth = gs.depth /\ other.lineno <= gs.lineno)}}

(* C33: the enclosing function general completion uses is, among the
   function declarations whose span contains the cursor line, the one of
   greatest nesting depth, ties broken by latest start line, whatever the
   order of the table and also when every candidate has depth 0. *)
C33_InnermostEnclosingFunction ==
  \A uri \in URIs : \A line \in Lines :
    LET sema == completion_sema(m_documents[uri])
    IN  (m_documents[uri].open /\ sema # NoInst) =>
          IF SpanContains(sema, line + 1) = {}
          THEN containing_function_at(sema, line + 1) = 0
          ELSE containing_function_at(sema, line + 1)
                 \in InnermostOf(SpanContains(sema, line + 1))

(* ----------------------------------------------------------------------- *)
(* The active parameter                                                     *)
(* ----------------------------------------------------------------------- *)

(* "(" minus ")" among toks[from..to]. *)
Surplus(toks, from, to) ==
  Cardinality({j \in from..to : toks[j].str = "("})
  - Cardinality({j \in from..to : toks[j].str = ")"})
(* The opening parenthesis of the call the cursor is in: the last "(" with
   everything after it balanced (0: none); and the commas after it that are
   in no nested pair of parentheses. *)
CallOpen(toks) ==
  Max({0} \cup {j \in 1..Len(toks) :
                  /\ toks[j].str = "("
                  /\ Surplus(toks, j + 1, Len(toks)) = 0
                  /\ \A k \in (j + 1)..Len(toks) : Surplus(toks, j + 1, k) >= 0})
ArgumentCommas(toks) ==
  {k \in (CallOpen(toks) + 1)..Len(toks) :
     toks[k].str = "," /\ Surplus(toks, CallOpen(toks) + 1, k) = 0}
(* get_signature_help goes on to look the callee up (line 942 lets it). *)
InsideCall == scan.found_open_paren /\ scan.function_name_token # NoToken
              /\ scan.paren_depth = 1

(* C34: the active_parameter of get_signature_help is the number of commas
   between the opening "(" of the call the cursor is in and the cursor that
   lie at depth 1 of that call; the commas of nested calls and of calls
   closed earlier are not counted. *)
C34_ActiveParameterCountsArgumentCommas ==
  InsideCall =>
    /\ CallOpen(scan.toks) # 0
    /\ scan.active_param = Cardinality(ArgumentCommas(scan.toks))

(* The cursor is after the first argument of a call, and the tokens before
   it hold a comma of a nested pair or of a call closed earlier. *)
C34_Witness ==
  /\ InsideCall
  /\ scan.active_param >= 1
  /\ Cardinality({k \in 1..Len(scan.toks) : scan.toks[k].str = ","}) > scan.active_param

(* The closed form the document handlers' model uses is the loop. *)
ScanCallIsTheLoop ==
  LET st == ScanCall(scan.toks)
  IN  /\ st.function_name_token = scan.function_name_token
      /\ st.paren_depth = scan.paren_depth
      /\ st.found_open_paren = scan.found_open_paren
      /\ (st.found_open_paren => st.active_param = scan.active_param)

(* ----------------------------------------------------------------------- *)
(* The order of a member-access list                                        *)
(* ----------------------------------------------------------------------- *)

(* In the semantic table: the type declarations, the members of one, and the
   global functions whose first parameter is of that type. *)
TypeDecls(sema) == {k \in 1..Len(DeclsOf(sema.p)) : is_type(Decl(sema, k))}
MembersOf(sema, k) ==
  {decl \in Range(DeclsOf(sema.p)) : decl.parent = k /\ decl.name # ""}
FreeFunctionsOn(sema, k) ==
  {decl \in Range(DeclsOf(sema.p)) :
     is_function(decl) /\ is_global(decl) /\ decl.param1 = Decl(sema, k).name}
(* items is all the members of the type k, each once, then free functions on
   k that share no member's name, no label twice; rest: whether a free
   function may follow. *)
MembersThenFunctions(sema, k, items, rest) ==
  LET names == {decl.name : decl \in MembersOf(sema, k)}
      n == Cardinality(names)
  IN  /\ Len(items) >= n
      /\ {items[i].label : i \in 1..n} = names
      /\ \A i \in 1..n : \E decl \in MembersOf(sema, k) : items[i] = MemberItem(decl)
      /\ \A i \in (n + 1)..Len(items) :
           /\ items[i].label \notin names
           /\ \E decl \in FreeFunctionsOn(sema, k) : items[i] = MemberItem(decl)
      /\ Cardinality({items[i].label : i \in 1..Len(items)}) = Len(items)
      /\ (Len(items) > n => rest)
(* The accessor before the 0-based cursor is one '.', not '..' nor ':'. *)
DotMode(d, line, col) ==
  LET prefix == substr(line_text(d, line), 0, col)
      accessor_pos == AccessorPos(prefix, Len(prefix) - 1)
  IN  prefix[accessor_pos + 1] = "." /\ prefix[accessor_pos] # "."

(* C35: a member-access list holds all members of the object's type before
   any free function callable on it, free functions only in '.' mode, and no
   two items of the same label: a free function named as a member is not
   listed. *)
C35_MembersBeforeFreeFunctions ==
  \A uri \in URIs : \A line \in Lines, col \in Cols :
    LET d == m_documents[uri]
        items == get_completions(d, line, col, Index)
    IN  (d.open /\ IsMemberMode(d, line, col) /\ items # << >>) =>
          \E k \in TypeDecls(completion_sema(d)) :
            MembersThenFunctions(completion_sema(d), k, items, DotMode(d, line, col))

(* What holds: the same with free functions after every accessor but '..'. *)
C35_MembersBeforeFreeFunctionsUnlessMemberOnly ==
  \A uri \in URIs : \A line \in Lines, col \in Cols :
    LET d == m_documents[uri]
        items == get_completions(d, line, col, Index)
    IN  (d.open /\ IsMemberMode(d, line, col) /\ items # << >>) =>
          \E k \in TypeDecls(completion_sema(d)) :
            MembersThenFunctions(completion_sema(d), k, items,
              ~MemberAccess(line_text(d, line), col).is_member_only)
(* A list with a member named as a free function on the type, listed once,
   as the member. *)
C35_SharedNameListedOnce ==
  \E line \in Lines, col \in Cols :
    LET d == m_documents["main"]
        items == get_completions(d, line, col, Index)
        sema == completion_sema(d)
    IN  /\ d.open /\ IsMemberMode(d, line, col) /\ items # << >>
        /\ DotMode(d, line, col)
        /\ \E k \in TypeDecls(sema) :
             \E decl \in MembersOf(sema, k) : \E func \in FreeFunctionsOn(sema, k) :
               decl.name = func.name

(* ----------------------------------------------------------------------- *)
(* A load that fails                                                        *)
(* ----------------------------------------------------------------------- *)

(* C36: a load_from_cache that returns false (no file, a file that cannot be
   read, another version, a JSON document that is malformed or incomplete in
   any entry) leaves the file records, the name map and the dirty flag as
   they were before the call. *)
C36_FailedLoadChangesNothing ==
  [][(Called("load_from_cache") /\ ~last'.ret) => ThisIndexAfter = ThisIndex]_vars

(* What holds: a load that fails before the first record is read (no file,
   no JSON document, another version) changes nothing. *)
C36_LoadFailedBeforeRecords ==
  [][(Called("load_from_cache") /\ ~last'.ret /\ cache_file.bad = 0)
       => ThisIndexAfter = ThisIndex]_vars

(* ----------------------------------------------------------------------- *)
(* Errors without a diagnostic                                              *)
(* ----------------------------------------------------------------------- *)

(* C37: whenever the latest update of a document recorded an error (it is
   not valid because of errors), diagnostics() is not empty: the suppression
   of fallback errors never removes every diagnostic of an update. *)
C37_ErrorsAreReported ==
  \A uri \in URIs :
    (m_documents[uri].open /\ m_documents[uri].m_errors # << >>)
      => diagnostics(m_documents[uri]) # << >>

(* What holds: an update that left at most one fallback error, or an error
   that is not one, is reported. *)
C37_ReportedUnlessOnlyFallbacks ==
  \A uri \in URIs :
    LET d == m_documents[uri]
    IN  (d.open /\ d.m_errors # << >>
         /\ (Len(d.m_errors) = 1 \/ \E k \in 1..Len(d.m_errors) : ~d.m_errors[k].fallback))
          => diagnostics(d) # << >>

(* ----------------------------------------------------------------------- *)
(* The files a scan considers                                               *)
(* ----------------------------------------------------------------------- *)

(* The name ends with the characters of suffix. *)
HasSuffix(name, suffix) ==
  /\ Len(name) > Len(suffix)
  /\ SubSeq(name, Len(name) - Len(suffix) + 1, Len(name)) = suffix
(* The regular files with extension .cpp2 or .h2 among the entries, with no
   part starting with '.' among those of their relative path that the
   predicate Counted(entry, k) selects. *)
SourceFiles(Counted(_, _)) ==
  {entry \in DirEntries :
     /\ entry.regular
     /\ \/ HasSuffix(entry.rel[Len(entry.rel)], <<".", "c", "p", "p", "2">>)
        \/ HasSuffix(entry.rel[Len(entry.rel)], <<".", "h", "2">>)
     /\ \A k \in 1..Len(entry.rel) : Counted(entry, k) => entry.rel[k][1] # "."}
IsDirectoryPart(entry, k) == k < Len(entry.rel)
IsAnyPart(entry, k) == TRUE
(* find_cpp2_files has returned for a directory that exists. *)
WalkReturned ==
  /\ walk.todo = {}
  /\ \E dir \in WorkspaceDirs : dir.exists /\ dir.path = walk.dir

(* C38: the files a scan considers are exactly the regular files below the
   root with extension .cpp2 or .h2 whose path relative to the root has no
   directory part starting with '.'; a part of the root's own path that
   starts with '.' makes it skip none. *)
C38_FilesConsidered ==
  WalkReturned =>
    Range(walk.files) = {walk.dir \o entry.rel : entry \in SourceFiles(IsDirectoryPart)}

(* What holds: under a root none of whose parts starts with '.', the files
   are those with no part starting with '.', the file name included. *)
C38_FilesWithNoDotPart ==
  (WalkReturned /\ \A k \in 1..Len(walk.dir) : walk.dir[k][1] # ".") =>
    Range(walk.files) = {walk.dir \o entry.rel : entry \in SourceFiles(IsAnyPart)}
(* A walk under such a root has returned files and skipped a hidden one. *)
C38_WalkSkippedHidden ==
  /\ WalkReturned /\ walk.files # << >>
  /\ Cardinality(Range(walk.files)) < Cardinality(SourceFiles(IsDirectoryPart))

(* ----------------------------------------------------------------------- *)
(* A scan after update_file                                                 *)
(* ----------------------------------------------------------------------- *)

(* C39: after update_file(uri, S) for a workspace file, a following
   scan_and_index leaves uri's record as it is unless the file on disk was
   modified after the update_file call: the scan right after the call
   replaces nothing of uri, and a scan that replaces a record found the file
   modified later than the time the record carries, which for update_file is
   the time of the call. *)
C39_ScanKeepsUpdatedRecord ==
  [][/\ (Called("update_file") /\ UpdateFile(last'.uri))
          => m_file_indices'[last'.uri].mtime = now
     /\ (Called("scan_and_index") /\ ScanAndIndex) =>
          /\ last.op = "update_file"
               => m_file_indices'[last.uri] = m_file_indices[last.uri]
          /\ \A uri \in URIs :
               (m_file_indices[uri].present /\ m_file_indices'[uri] # m_file_indices[uri])
                 => disk[uri].mtime > m_file_indices[uri].mtime]_vars

(* A scan has run over a readable workspace file whose record is newer than
   the file and holds other symbols than the file's: the record update_file
   made is still there. *)
C39_Witness ==
  /\ last.op = "scan_and_index" /\ m_workspace_root # ""
  /\ disk["main"].exists /\ disk["main"].readable
  /\ m_file_indices["main"].present
  /\ m_file_indices["main"].mtime > disk["main"].mtime
  /\ \A record \in index_file("main") :
       record.symbols # m_file_indices["main"].symbols

=============================================================================
